---------------------------- MODULE Spec2Model ----------------------------
(***************************************************************************)
(* reqguard: a model of the policy engines, the require hook and the       *)
(* install/uninstall state of the four hooks.                              *)
(*                                                                         *)
(* Strings of the program are sequences of one-character strings, so that  *)
(* startsWith, endsWith, indexOf, split and substring are computed, not    *)
(* assumed.  An optional value (a field that may be undefined or null) is  *)
(* a sequence of length 0 or 1.                                            *)
(***************************************************************************)
EXTENDS Integers, Sequences, FiniteSets, TLC

VARIABLES
    \* ---- src/policy/PolicyEngine.ts (rule engine) ----
    policy,             \* PolicyEngine.policy, the merged ReqGuardPolicy
    evalModuleId,       \* the moduleId of the last evaluate call (<<>> before any)
    decision,           \* the PolicyDecision it returned (<<>> before any)
    match,              \* the last matchesPattern call and its result (<<>> before any)
    \* ---- src/core/cjs-interceptor.ts ----
    moduleRequire,      \* Module.prototype.require: "original" or "patchedRequire"
    originalRequire,    \* the saved handler, <<>> for null
    isHooked,
    isChecking,         \* the recursion guard
    analyzerCallback,   \* <<>> for null, or <<analyzer>>
    \* ---- src/unnamed/part_005 (core/primordials) ----
    globalEval,         \* globalThis.eval: "original" or "lockedEval"
    globalFunction,     \* globalThis.Function: "original" or "FunctionProxy"
    originalEval,
    originalFunction,
    isLocked,
    \* ---- src/core/network-shield.ts ----
    netSlot,            \* connect, lookup, fetch |-> the handler in place
    netOriginal,        \* originalSocketConnect, originalDnsLookup, originalFetch
    netIsActivated,
    \* ---- src/core/fs-shield.ts ----
    fsSlot,             \* the seven fs entry points |-> the handler in place
    fsOriginal,         \* originalReadFileSync ... originalPromisesOpendir
    fsIsActivated,
    \* ---- src/core/policy-engine.ts (singleton engine) ----
    instance,           \* PolicyEngine.instance: <<>> for null, or <<engine>>
    \* ---- the host ----
    host,               \* fetch, opendir |-> "original", or "undefined" where the
                        \* host has no global.fetch / fs.promises.opendir
    \* ---- the shields' rule arrays and the calls of the guarded entry points ----
    ruleArrays,         \* BLOCKED_FILENAMES, BLOCKED_PATH_PATTERNS, BLOCKED_IPS,
                        \* BLOCKED_HOSTS as they are now
    io,                 \* the last call of a guarded entry point (<<>> before any)
    ticks,              \* the callbacks queued with process.nextTick
    ioCount,            \* the number of calls of guarded entry points made
    \* ---- src/unnamed/part_003 (utils/levenshtein) ----
    levIn,              \* the arguments a, b, threshold
    levOut,             \* what levenshtein and isSimilar returned (<<>> before any)
    \* ---- src/unnamed/part_004 (core/typosquat) ----
    typo,               \* what checkTyposquat returned (<<>> before any)
    \* ---- src/unnamed/part_002 (the index over the rule engine) ----
    guard,              \* isInitialized, engine (<<>> for null) and the policy the
                        \* analyzer callback's closure holds
    \* ---- src/unnamed/part_003 (the index over the singleton and the shields) ----
    app,                \* isInitialized and currentConfig (<<>> for null)
    \* ---- direct calls of the singleton, and src/loader.mjs ----
    checked,            \* the last PolicyEngine.check call and what it did (<<>> before any)
    resolved,           \* the last call of the loader's resolve hook and what it did
    \* ---- calls in progress ----
    stack,              \* the require calls in progress, outermost first
    hookSeq,            \* progress through hookRequire, restoreRequire,
                        \* hookRequire, restoreRequire (see HookSeqStep)
    \* ---- the last API call, for every specification ----
    lastCall

-----------------------------------------------------------------------------
(* String helpers: the JavaScript string methods the sources use.          *)

\* String.prototype.startsWith
StartsWith(s, p) == Len(s) >= Len(p) /\ SubSeq(s, 1, Len(p)) = p

\* String.prototype.endsWith
EndsWith(s, p) == Len(s) >= Len(p) /\ SubSeq(s, Len(s) - Len(p) + 1, Len(s)) = p

\* String.prototype.indexOf(c) for a one-character c, 1-based; 0 when absent
\* (the source's -1).
IndexOf(s, c) ==
    IF \E i \in 1..Len(s) : s[i] = c
    THEN CHOOSE i \in 1..Len(s) : s[i] = c /\ \A j \in 1..(i - 1) : s[j] # c
    ELSE 0

\* String.prototype.includes(c) for a one-character c
Includes(s, c) == IndexOf(s, c) # 0

\* s.split('/'): the sequence of the '/'-separated segments of s.
RECURSIVE Split(_)
Split(s) ==
    LET i == IndexOf(s, "/")
    IN  IF i = 0 THEN <<s>>
        ELSE <<SubSeq(s, 1, i - 1)>> \o Split(SubSeq(s, i + 1, Len(s)))

\* The character sequences the model's inputs are built from.
NodePrefix == <<"n", "o", "d", "e", ":">>
DotSlash == <<".", "/">>
DotDotSlash == <<".", ".", "/">>

-----------------------------------------------------------------------------
(* src/types/policy.ts and src/policy/PolicyEngine.ts                      *)

\* The built-in module names of the host (node's builtinModules), restricted
\* to the ones the model's inputs use.
builtinModules == { <<"f", "s">>, <<"o", "s">>, <<"v", "m">> }

\* PolicyEngine.builtinSet: every built-in, bare and with the node: prefix
builtinSet == builtinModules \cup { NodePrefix \o m : m \in builtinModules }

\* DEFAULT_POLICY
DEFAULT_POLICY ==
    [ mode |-> "enforce",
      packages |-> [ allow |-> <<>>, block |-> <<>>, warn |-> <<>> ],
      builtins |-> [ allow |-> TRUE, restricted |-> <<>> ],
      relativeImports |-> [ analyze |-> FALSE ],
      logging |-> [ level |-> "warn" ] ]

\* A PolicyDecision.  reason is a message template and the name spliced into
\* it; matchedRule is <<>> or <<rule>>.
Decision(action, text, arg, matched) ==
    [ action |-> action, reason |-> [ text |-> text, arg |-> arg ],
      matchedRule |-> matched ]

\* PolicyEngine.isBuiltin
isBuiltin(moduleId) == moduleId \in builtinSet

\* isRelativeImport as it would be if it knew the same-directory marker only.
isRelativeImportSameDir(moduleId) == StartsWith(moduleId, DotSlash)

\* PolicyEngine.isRelativeImport
isRelativeImport(moduleId) ==
    StartsWith(moduleId, DotSlash) \/ StartsWith(moduleId, DotDotSlash)

\* extractPackageName as it would be if it returned the specifier as it is.
extractPackageNameWhole(moduleId) == moduleId

\* PolicyEngine.extractPackageName
extractPackageName(moduleId) ==
    IF StartsWith(moduleId, <<"@">>)
    THEN LET parts == Split(moduleId)
         IN  IF Len(parts) >= 2
             THEN parts[1] \o <<"/">> \o parts[2]
             ELSE moduleId
    ELSE LET slashIndex == IndexOf(moduleId, "/")
         IN  IF slashIndex # 0
             THEN SubSeq(moduleId, 1, slashIndex - 1)
             ELSE moduleId

\* matchesPattern as it would be without the wildcard branch.
matchesPatternExact(packageName, pattern) == pattern = packageName

\* PolicyEngine.matchesPattern
matchesPattern(packageName, pattern) ==
    IF pattern = packageName THEN TRUE
    ELSE IF EndsWith(pattern, <<"*">>)
         THEN StartsWith(packageName, SubSeq(pattern, 1, Len(pattern) - 1))
         ELSE FALSE

\* matchesList as it would be if the loop kept going and returned the last
\* matching rule instead of the first.
matchesListLast(packageName, rules) ==
    LET hits == { i \in 1..Len(rules) : matchesPattern(packageName, rules[i].name) }
    IN  IF hits = {} THEN <<>>
        ELSE <<rules[CHOOSE i \in hits : \A j \in hits : i >= j]>>

\* PolicyEngine.matchesList: <<rule>> for the first rule of the list, in list
\* order, whose name matches; <<>> (the source's null) when none does.
matchesList(packageName, rules) ==
    LET hits == { i \in 1..Len(rules) : matchesPattern(packageName, rules[i].name) }
    IN  IF hits = {} THEN <<>>
        ELSE <<rules[CHOOSE i \in hits : \A j \in hits : i <= j]>>

\* `rule.reason || fallback`: an absent or empty reason is falsy.
ReasonOr(rule, text, arg) ==
    IF rule.reason # <<>> /\ rule.reason[1] # ""
    THEN [ text |-> rule.reason[1], arg |-> <<>> ]
    ELSE [ text |-> text, arg |-> arg ]

\* The restricted test as it would be if it came after the builtins.allow
\* test.
IsRestrictedWhenDisabled(p, normalized) ==
    /\ ~p.builtins.allow
    /\ \E i \in 1..Len(p.builtins.restricted) : p.builtins.restricted[i] = normalized

\* `this.policy.builtins.restricted.includes(normalized)`
IsRestricted(p, normalized) ==
    \E i \in 1..Len(p.builtins.restricted) : p.builtins.restricted[i] = normalized

\* The last return of evaluateBuiltin as it would be if it allowed.
BuiltinDefaultAllow == Decision("allow", "Built-in module", <<>>, <<>>)

\* The last return of evaluateBuiltin: no rule matched and builtins.allow is
\* false.
BuiltinDefault == Decision("block", "Built-in modules are disabled by policy", <<>>, <<>>)

\* PolicyEngine.evaluateBuiltin
evaluateBuiltin(p, moduleId) ==
    LET normalized == IF StartsWith(moduleId, NodePrefix)
                      THEN SubSeq(moduleId, 6, Len(moduleId))
                      ELSE moduleId
        allowMatch == matchesList(normalized, p.packages.allow)
        blockMatch == matchesList(normalized, p.packages.block)
    IN  IF IsRestricted(p, normalized)
        THEN Decision("block", "Built-in is restricted by policy", normalized, <<>>)
        ELSE IF p.builtins.allow
        THEN Decision("allow", "Built-in module", <<>>, <<>>)
        ELSE IF allowMatch # <<>>
        THEN [ action |-> "allow",
               reason |-> ReasonOr(allowMatch[1], "Built-in is explicitly allowlisted", normalized),
               matchedRule |-> allowMatch ]
        ELSE IF blockMatch # <<>>
        THEN [ action |-> "block",
               reason |-> ReasonOr(blockMatch[1], "Built-in is blocklisted", normalized),
               matchedRule |-> blockMatch ]
        ELSE BuiltinDefault

\* PolicyEngine.evaluate
evaluate(p, moduleId) ==
    IF isBuiltin(moduleId) THEN evaluateBuiltin(p, moduleId)
    ELSE IF isRelativeImport(moduleId)
    THEN IF ~p.relativeImports.analyze
         THEN Decision("allow", "Relative import (analysis disabled)", <<>>, <<>>)
         ELSE Decision("analyze", "Relative import requires analysis", <<>>, <<>>)
    ELSE
    LET packageName == extractPackageName(moduleId)
        blockMatch == matchesList(packageName, p.packages.block)
        allowMatch == matchesList(packageName, p.packages.allow)
        warnMatch == matchesList(packageName, p.packages.warn)
    IN  IF blockMatch # <<>>
        THEN [ action |-> "block",
               reason |-> ReasonOr(blockMatch[1], "Package is blocklisted", packageName),
               matchedRule |-> blockMatch ]
        ELSE IF allowMatch # <<>>
        THEN [ action |-> "allow",
               reason |-> ReasonOr(allowMatch[1], "Package is allowlisted", packageName),
               matchedRule |-> allowMatch ]
        ELSE IF warnMatch # <<>>
        THEN [ action |-> "warn",
               reason |-> ReasonOr(warnMatch[1], "Package requires review", packageName),
               matchedRule |-> warnMatch ]
        ELSE Decision("analyze", "No explicit rule, requires analysis", <<>>, <<>>)

\* new PolicyEngine(partial): DEFAULT_POLICY overridden, field by field, by the
\* fields the caller gives (a field not given is <<>>).
PolicyEngineNew(partial) ==
    LET or(opt, dflt) == IF opt = <<>> THEN dflt ELSE opt[1]
    IN  [ mode |-> or(partial.mode, DEFAULT_POLICY.mode),
          packages |->
            [ allow |-> or(partial.allow, DEFAULT_POLICY.packages.allow),
              block |-> or(partial.block, DEFAULT_POLICY.packages.block),
              warn |-> or(partial.warn, DEFAULT_POLICY.packages.warn) ],
          builtins |->
            [ allow |-> or(partial.builtinsAllow, DEFAULT_POLICY.builtins.allow),
              restricted |-> or(partial.restricted, DEFAULT_POLICY.builtins.restricted) ],
          relativeImports |->
            [ analyze |-> or(partial.analyze, DEFAULT_POLICY.relativeImports.analyze) ],
          logging |-> [ level |-> or(partial.level, DEFAULT_POLICY.logging.level) ] ]

-----------------------------------------------------------------------------
(* Inputs of the rule engine.                                              *)

\* The most rules one policy holds, over its three lists together.
MaxRules == 2

\* PackageRule: name, and the optional reason (version is carried, never read).
Rule(name, reason) == [ name |-> name, reason |-> reason ]

RulePool ==
    { Rule(<<"a", "b">>, <<"R1">>), Rule(<<"a", "b">>, <<>>),
      Rule(<<"a", "*">>, <<"R2">>), Rule(<<"a", "*">>, <<"">>),
      Rule(<<"@", "s", "/", "*">>, <<>>),
      Rule(<<"f", "s">>, <<"R1">>), Rule(<<"f", "s">>, <<>>),
      Rule(NodePrefix \o <<"*">>, <<"R3">>), Rule(<<"*">>, <<"R3">>) }

\* The rule lists of at most n rules.
RECURSIVE RuleLists(_)
RuleLists(n) ==
    IF n = 0 THEN { <<>> }
    ELSE RuleLists(n - 1)
         \cup { Append(l, r) : l \in { x \in RuleLists(n - 1) : Len(x) = n - 1 },
                               r \in RulePool }

\* The specifiers evaluate is asked about.
Specifiers ==
    { <<"a", "b">>, <<"a", "b", "/", "x">>, <<"b">>,
      <<"@", "s", "/", "p", "/", "x">>,
      <<"@", "s", "/", "p">>,
      <<"f", "s">>, NodePrefix \o <<"f", "s">>, <<"o", "s">>, NodePrefix \o <<"o", "s">>,
      DotSlash \o <<"a", "b">>, DotDotSlash \o <<"a", "b">> }

-----------------------------------------------------------------------------
(* The rule engine as a state machine: an engine is constructed, then      *)
(* asked about specifiers.                                                 *)

evalVars == << policy, evalModuleId, decision, match >>
requireVars == << moduleRequire, originalRequire, isHooked, isChecking, analyzerCallback >>
primordialVars == << globalEval, globalFunction, originalEval, originalFunction, isLocked >>
netVars == << netSlot, netOriginal, netIsActivated >>
fsVars == << fsSlot, fsOriginal, fsIsActivated >>
callVars == << stack, hookSeq >>
shieldVars == << ruleArrays, io, ticks, ioCount >>
levVars == << levIn, levOut, typo >>
indexVars == << guard, app, checked, resolved >>

vars == << evalVars, requireVars, primordialVars, netVars, fsVars, instance, callVars,
           host, shieldVars, levVars, indexVars, lastCall >>

\* The entry points of the host, before anything is installed.
NetEntryPoints == { "connect", "lookup", "fetch" }
FsEntryPoints ==
    { "readFileSync", "readFile", "openSync", "open",
      "promises.readFile", "promises.open", "promises.opendir" }

\* The module state of the four hook modules as the module bodies leave it,
\* on a host where global.fetch is `fetch` and fs.promises.opendir is `opendir`
\* ("original", or "undefined" on a host that lacks it).
HooksPristine(fetch, opendir) ==
    /\ host = [ fetch |-> fetch, opendir |-> opendir ]
    /\ moduleRequire = "original"
    /\ originalRequire = <<>>
    /\ isHooked = FALSE
    /\ isChecking = FALSE
    /\ analyzerCallback = <<>>
    /\ globalEval = "original"
    /\ globalFunction = "original"
    /\ originalEval = <<>>
    /\ originalFunction = <<>>
    /\ isLocked = FALSE
    /\ netSlot = [ e \in NetEntryPoints |-> IF e = "fetch" THEN fetch ELSE "original" ]
    /\ netOriginal = [ e \in NetEntryPoints |-> <<>> ]
    /\ netIsActivated = FALSE
    /\ fsSlot = [ e \in FsEntryPoints |->
                    IF e = "promises.opendir" THEN opendir ELSE "original" ]
    /\ fsOriginal = [ e \in FsEntryPoints |-> <<>> ]
    /\ fsIsActivated = FALSE

\* BLOCKED_FILENAMES of fs-shield.ts
BLOCKED_FILENAMES ==
    << <<".", "e", "n", "v">>,
       <<".", "e", "n", "v", ".", "l", "o", "c", "a", "l">>,
       <<".", "e", "n", "v", ".", "p", "r", "o", "d", "u", "c", "t", "i", "o", "n">>,
       <<".", "e", "n", "v", ".", "d", "e", "v", "e", "l", "o", "p", "m", "e", "n", "t">>,
       <<"i", "d", "_", "r", "s", "a">>,
       <<"i", "d", "_", "e", "d", "2", "5", "5", "1", "9">>,
       <<"i", "d", "_", "e", "c", "d", "s", "a">>,
       <<"i", "d", "_", "d", "s", "a">> >>

\* BLOCKED_PATH_PATTERNS of fs-shield.ts
BLOCKED_PATH_PATTERNS ==
    << <<".", "s", "s", "h", "/">>,
       <<"/", ".", "s", "s", "h", "/">>,
       <<"\\", ".", "s", "s", "h", "\\">>,
       <<"/", "e", "t", "c", "/", "p", "a", "s", "s", "w", "d">>,
       <<"/", "e", "t", "c", "/", "s", "h", "a", "d", "o", "w">>,
       <<"/", "e", "t", "c", "/", "h", "o", "s", "t", "s">>,
       <<"\\", "e", "t", "c", "\\", "p", "a", "s", "s", "w", "d">> >>

\* BLOCKED_SUFFIXES of fs-shield.ts
BLOCKED_SUFFIXES ==
    << <<".", "p", "e", "m">>,
       <<".", "k", "e", "y">>,
       <<"_", "r", "s", "a">>,
       <<"_", "e", "d", "2", "5", "5", "1", "9">> >>

\* BLOCKED_IPS of network-shield.ts
BLOCKED_IPS ==
    << <<"1", "6", "9", ".", "2", "5", "4", ".", "1", "6", "9", ".", "2", "5", "4">>,
       <<"1", "6", "9", ".", "2", "5", "4", ".", "1", "7", "0", ".", "2">>,
       <<"f", "d", "0", "0", ":", "e", "c", "2", ":", ":", "2", "5", "4">> >>

\* BLOCKED_HOSTS of network-shield.ts
BLOCKED_HOSTS ==
    << <<"m", "e", "t", "a", "d", "a", "t", "a", ".", "g", "o", "o", "g", "l", "e", ".", "i", "n", "t", "e", "r", "n", "a", "l">>,
       <<"m", "e", "t", "a", "d", "a", "t", "a", ".", "g", "c", "p", ".", "i", "n", "t", "e", "r", "n", "a", "l">> >>

\* The shields as their module bodies leave them: the rule arrays as written,
\* no guarded entry point called yet, nothing queued.
ShieldIdle ==
    /\ ruleArrays = [ filenames |-> BLOCKED_FILENAMES, patterns |-> BLOCKED_PATH_PATTERNS,
                      ips |-> BLOCKED_IPS, hosts |-> BLOCKED_HOSTS ]
    /\ io = <<>>
    /\ ticks = <<>>
    /\ ioCount = 0

\* levenshtein not called yet.
LevIdle == levIn = [ a |-> <<>>, b |-> <<>> ] /\ levOut = <<>> /\ typo = <<>>

\* Neither index initialised, the singleton and the loader not called.
IndexIdle ==
    /\ guard = [ isInitialized |-> FALSE, engine |-> <<>>, policy |-> <<>> ]
    /\ app = [ isInitialized |-> FALSE, currentConfig |-> <<>> ]
    /\ checked = <<>>
    /\ resolved = <<>>

\* The rest of the state while the rule engine alone is exercised.
EvalIdle == evalModuleId = <<>> /\ decision = <<>> /\ match = <<>> /\ policy = DEFAULT_POLICY
CallsIdle == stack = <<>> /\ hookSeq = [ pos |-> 0, base |-> "original", seen |-> {} ]

InitEval ==
    /\ \E a \in RuleLists(MaxRules), b \in RuleLists(MaxRules), w \in RuleLists(MaxRules),
          ba \in { <<>>, <<FALSE>> }, re \in { <<>>, << <<<<"f", "s">>>> >> },
          an \in { <<>>, <<TRUE>> } :
          /\ Len(a) + Len(b) + Len(w) <= MaxRules
          /\ policy = PolicyEngineNew(
                [ mode |-> <<>>, allow |-> <<a>>, block |-> <<b>>, warn |-> <<w>>,
                  builtinsAllow |-> ba, restricted |-> re, analyze |-> an,
                  level |-> <<>> ])
    /\ evalModuleId = <<>>
    /\ decision = <<>>
    /\ match = <<>>
    /\ lastCall = [ op |-> "new PolicyEngine", arg |-> <<>>, installed |-> FALSE ]
    /\ HooksPristine("original", "original")
    /\ instance = <<>>
    /\ CallsIdle
    /\ ShieldIdle
    /\ LevIdle
    /\ IndexIdle

\* engine.evaluate(moduleId, resolvedPath); resolvedPath is never read.
Evaluate(moduleId) ==
    /\ evalModuleId' = <<moduleId>>
    /\ decision' = <<evaluate(policy, moduleId)>>
    /\ lastCall' = [ op |-> "evaluate", arg |-> <<moduleId>>, installed |-> FALSE ]
    /\ UNCHANGED << policy, match, requireVars, primordialVars, netVars, fsVars, instance,
                    callVars, host, shieldVars, levVars, indexVars >>

NextEval == \E moduleId \in Specifiers : Evaluate(moduleId)

SpecEval == InitEval /\ [][NextEval]_vars

-----------------------------------------------------------------------------
(* PolicyEngine.matchesPattern on its own: a name and a pattern are drawn  *)
(* and the function is applied to them.                                    *)

\* The longest name and the longest pattern.
MaxPatternLen == 3

\* The characters of the names and patterns: a letter in both cases, and the
\* wildcard marker.
PatternLetters == { "a", "A", "*" }

\* The names and patterns of at most n characters.
PatternStrings(n) == UNION { [ 1..k -> PatternLetters ] : k \in 0..n }

\* matchesPattern(packageName, pattern) is called (one call in each run).
MatchesPattern(packageName, pattern) ==
    /\ match = <<>>
    /\ match' = << [ packageName |-> packageName, pattern |-> pattern,
                     value |-> matchesPattern(packageName, pattern) ] >>
    /\ UNCHANGED << policy, evalModuleId, decision, requireVars, primordialVars, netVars,
                    fsVars, instance, callVars, host, shieldVars, levVars, indexVars, lastCall >>

InitMatch ==
    /\ EvalIdle
    /\ HooksPristine("original", "original")
    /\ instance = <<>>
    /\ CallsIdle
    /\ ShieldIdle
    /\ LevIdle
    /\ IndexIdle
    /\ lastCall = [ op |-> "load", arg |-> <<>>, installed |-> FALSE ]

NextMatch ==
    \E packageName \in PatternStrings(MaxPatternLen), pattern \in PatternStrings(MaxPatternLen) :
        MatchesPattern(packageName, pattern)

SpecMatch == InitMatch /\ [][NextMatch]_vars

-----------------------------------------------------------------------------
(* src/core/cjs-interceptor.ts: hookRequire, restoreRequire, setAnalyzer   *)

\* The analyzer callbacks callers pass.
Analyzers == { "a1", "a2" }
OptAnalyzer == { <<>> } \cup { <<a>> : a \in Analyzers }

\* The record of an API call: its name, its argument, and whether the hook it
\* addresses was installed when it was called.
Call(op, arg, installed) == [ op |-> op, arg |-> arg, installed |-> installed ]

\* Progress through the call sequence hookRequire, restoreRequire, hookRequire,
\* restoreRequire begun while the hook is not installed: pos counts the calls
\* of the sequence made so far, base is Module.prototype.require as it was
\* before the first of them, seen the analyzers the hookRequire calls of the
\* sequence were given.  Any other hook call starts over.
HookSeqStep(op, analyzer) ==
    LET over == [ pos |-> 0, base |-> moduleRequire, seen |-> {} ]
        given == { analyzer[i] : i \in 1..Len(analyzer) }
    IN  CASE op = "hookRequire" ->
                IF isHooked THEN over
                ELSE IF hookSeq.pos = 2
                THEN [ hookSeq EXCEPT !.pos = 3, !.seen = hookSeq.seen \cup given ]
                ELSE [ pos |-> 1, base |-> moduleRequire, seen |-> given ]
          [] op = "restoreRequire" ->
                IF hookSeq.pos \in { 1, 3 }
                THEN [ hookSeq EXCEPT !.pos = hookSeq.pos + 1 ]
                ELSE over
          [] OTHER -> over

\* hookRequire's guard as it would be without the isHooked test.
AlreadyHookedNever == FALSE

\* `if (isHooked)` of hookRequire
AlreadyHooked == isHooked

\* hookRequire(analyzer?)
HookRequireBody(analyzer) ==
    /\ analyzerCallback' = IF analyzer # <<>> THEN analyzer ELSE analyzerCallback
    /\ IF AlreadyHooked
       THEN UNCHANGED << moduleRequire, originalRequire, isHooked >>
       ELSE /\ originalRequire' = <<moduleRequire>>
            /\ moduleRequire' = "patchedRequire"
            /\ isHooked' = TRUE
    /\ hookSeq' = HookSeqStep("hookRequire", analyzer)

\* hookRequire(analyzer?) called from user code
hookRequire(analyzer) ==
    /\ stack = <<>>
    /\ HookRequireBody(analyzer)
    /\ lastCall' = Call("hookRequire", analyzer, isHooked)
    /\ UNCHANGED << isChecking, stack, evalVars, primordialVars, netVars, fsVars, instance, host, shieldVars, levVars, indexVars >>

\* restoreRequire as it would be if it kept the analyzer.
restoreAnalyzerKept == analyzerCallback

\* `analyzerCallback = null` of restoreRequire
restoreAnalyzer == <<>>

\* The value of a saved-original variable: the handler, or null.
Saved(original) == IF original = <<>> THEN "null" ELSE original[1]

\* restoreRequire's guard as it would be if it restored unconditionally.
CanRestoreAlways == TRUE

\* `if (isHooked && originalRequire)` of restoreRequire
CanRestore == isHooked /\ originalRequire # <<>>

\* restoreRequire()
RestoreRequireBody ==
    /\ IF CanRestore
       THEN /\ moduleRequire' = Saved(originalRequire)
            /\ originalRequire' = <<>>
            /\ isHooked' = FALSE
            /\ analyzerCallback' = restoreAnalyzer
       ELSE UNCHANGED << moduleRequire, originalRequire, isHooked, analyzerCallback >>
    /\ hookSeq' = HookSeqStep("restoreRequire", <<>>)

\* restoreRequire() called from user code
restoreRequire ==
    /\ stack = <<>>
    /\ RestoreRequireBody
    /\ lastCall' = Call("restoreRequire", <<>>, isHooked)
    /\ UNCHANGED << isChecking, stack, evalVars, primordialVars, netVars, fsVars, instance, host, shieldVars, levVars, indexVars >>

\* setAnalyzer(analyzer)
setAnalyzer(analyzer) ==
    /\ stack = <<>>
    /\ analyzerCallback' = analyzer
    /\ hookSeq' = HookSeqStep("setAnalyzer", analyzer)
    /\ lastCall' = Call("setAnalyzer", analyzer, isHooked)
    /\ UNCHANGED << moduleRequire, originalRequire, isHooked, isChecking, stack,
                    evalVars, primordialVars, netVars, fsVars, instance, host, shieldVars, levVars, indexVars >>

-----------------------------------------------------------------------------
(* src/unnamed/part_005 (core/primordials): lockdownPrimordials,           *)
(* restorePrimordials                                                      *)

\* lockdownPrimordials()
LockdownPrimordialsBody ==
    /\ IF isLocked
       THEN UNCHANGED primordialVars
       ELSE /\ originalEval' = <<globalEval>>
            /\ originalFunction' = <<globalFunction>>
            /\ globalEval' = "lockedEval"
            /\ globalFunction' = "FunctionProxy"
            /\ isLocked' = TRUE

\* lockdownPrimordials() called from user code
lockdownPrimordials ==
    /\ stack = <<>>
    /\ LockdownPrimordialsBody
    /\ lastCall' = Call("lockdownPrimordials", <<>>, isLocked)
    /\ UNCHANGED << requireVars, callVars, evalVars, netVars, fsVars, instance, host, shieldVars, levVars, indexVars >>

\* restorePrimordials()
RestorePrimordialsBody ==
    /\ IF ~isLocked \/ originalEval = <<>> \/ originalFunction = <<>>
       THEN UNCHANGED primordialVars
       ELSE /\ globalEval' = Saved(originalEval)
            /\ globalFunction' = Saved(originalFunction)
            /\ originalEval' = <<>>
            /\ originalFunction' = <<>>
            /\ isLocked' = FALSE

\* restorePrimordials() called from user code
restorePrimordials ==
    /\ stack = <<>>
    /\ RestorePrimordialsBody
    /\ lastCall' = Call("restorePrimordials", <<>>, isLocked)
    /\ UNCHANGED << requireVars, callVars, evalVars, netVars, fsVars, instance, host, shieldVars, levVars, indexVars >>

-----------------------------------------------------------------------------
(* src/core/network-shield.ts: activateNetworkShield,                      *)
(* deactivateNetworkShield                                                 *)

\* What activateNetworkShield does to one entry point: connect and lookup are
\* always patched; shimGlobalFetch patches fetch only where it is a function.
NetPatched(e) == e # "fetch" \/ netSlot[e] # "undefined"

\* activateNetworkShield()
ActivateNetworkShieldBody ==
    /\ IF netIsActivated
       THEN UNCHANGED netVars
       ELSE /\ netOriginal' = [ e \in NetEntryPoints |->
                                  IF NetPatched(e) THEN <<netSlot[e]>> ELSE netOriginal[e] ]
            /\ netSlot' = [ e \in NetEntryPoints |->
                              IF NetPatched(e) THEN "patched" ELSE netSlot[e] ]
            /\ netIsActivated' = TRUE

\* activateNetworkShield() called from user code
activateNetworkShield ==
    /\ stack = <<>>
    /\ ActivateNetworkShieldBody
    /\ lastCall' = Call("activateNetworkShield", <<>>, netIsActivated)
    /\ UNCHANGED << requireVars, callVars, evalVars, primordialVars, fsVars, instance, host, shieldVars, levVars, indexVars >>

\* deactivateNetworkShield(): each saved original that is not null is written
\* back and cleared.
DeactivateNetworkShieldBody ==
    /\ IF ~netIsActivated
       THEN UNCHANGED netVars
       ELSE /\ netSlot' = [ e \in NetEntryPoints |->
                              IF netOriginal[e] # <<>> THEN Saved(netOriginal[e]) ELSE netSlot[e] ]
            /\ netOriginal' = [ e \in NetEntryPoints |-> <<>> ]
            /\ netIsActivated' = FALSE

\* deactivateNetworkShield() called from user code
deactivateNetworkShield ==
    /\ stack = <<>>
    /\ DeactivateNetworkShieldBody
    /\ lastCall' = Call("deactivateNetworkShield", <<>>, netIsActivated)
    /\ UNCHANGED << requireVars, callVars, evalVars, primordialVars, fsVars, instance, host, shieldVars, levVars, indexVars >>

-----------------------------------------------------------------------------
(* src/core/fs-shield.ts: activateFsShield, deactivateFsShield             *)

\* What activateFsShield and patchPromisesAPI do to one entry point: all are
\* patched, fs.promises.opendir only where it exists.
FsPatched(e) == e # "promises.opendir" \/ fsSlot[e] # "undefined"

\* activateFsShield(); patchPromisesAPI has no await, so it has run to its end
\* when activateFsShield returns.
ActivateFsShieldBody ==
    /\ IF fsIsActivated
       THEN UNCHANGED fsVars
       ELSE /\ fsOriginal' = [ e \in FsEntryPoints |->
                                 IF FsPatched(e) THEN <<fsSlot[e]>> ELSE fsOriginal[e] ]
            /\ fsSlot' = [ e \in FsEntryPoints |->
                             IF FsPatched(e) THEN "patched" ELSE fsSlot[e] ]
            /\ fsIsActivated' = TRUE

\* activateFsShield() called from user code
activateFsShield ==
    /\ stack = <<>>
    /\ ActivateFsShieldBody
    /\ lastCall' = Call("activateFsShield", <<>>, fsIsActivated)
    /\ UNCHANGED << requireVars, callVars, evalVars, primordialVars, netVars, instance, host, shieldVars, levVars, indexVars >>

\* deactivateFsShield()
DeactivateFsShieldBody ==
    /\ IF ~fsIsActivated
       THEN UNCHANGED fsVars
       ELSE /\ fsSlot' = [ e \in FsEntryPoints |->
                             IF fsOriginal[e] # <<>> THEN Saved(fsOriginal[e]) ELSE fsSlot[e] ]
            /\ fsOriginal' = [ e \in FsEntryPoints |-> <<>> ]
            /\ fsIsActivated' = FALSE

\* deactivateFsShield() called from user code
deactivateFsShield ==
    /\ stack = <<>>
    /\ DeactivateFsShieldBody
    /\ lastCall' = Call("deactivateFsShield", <<>>, fsIsActivated)
    /\ UNCHANGED << requireVars, callVars, evalVars, primordialVars, netVars, instance, host, shieldVars, levVars, indexVars >>

-----------------------------------------------------------------------------
(* src/core/policy-engine.ts: the singleton PolicyEngine                   *)

\* DANGEROUS_BUILTINS
DANGEROUS_BUILTINS ==
    { <<"c", "h", "i", "l", "d", "_", "p", "r", "o", "c", "e", "s", "s">>,
      <<"v", "m">>,
      <<"w", "o", "r", "k", "e", "r", "_", "t", "h", "r", "e", "a", "d", "s">> }

\* PolicyEngine.dangerousSet
dangerousSet == DANGEROUS_BUILTINS \cup { NodePrefix \o m : m \in DANGEROUS_BUILTINS }

\* DEFAULT_CONFIG
DEFAULT_CONFIG ==
    [ mode |-> "enforce", allowDangerousBuiltins |-> FALSE,
      blocklist |-> <<>>, allowlist |-> <<>>, logLevel |-> "warn" ]

\* `{ ...base, ...config }` for a Partial<PolicyConfig>, whose absent fields
\* are <<>>.
MergeConfig(base, config) ==
    [ f \in DOMAIN base |-> IF config[f] = <<>> THEN base[f] ELSE config[f][1] ]

\* new Set(list)
SetOf(list) == { list[i] : i \in 1..Len(list) }

\* new PolicyEngine(config) of the singleton class
SingletonNew(config) ==
    LET c == MergeConfig(DEFAULT_CONFIG, config)
    IN  [ config |-> c, allowSet |-> SetOf(c.allowlist), blockSet |-> SetOf(c.blocklist) ]

\* The engine PolicyEngine.getInstance() returns (it creates a default one when
\* there is none).
getInstance == IF instance = <<>> THEN SingletonNew([ f \in DOMAIN DEFAULT_CONFIG |-> <<>> ])
               ELSE instance[1]

\* configure as it would be if it merged the configuration and left the two
\* sets of an existing engine as they were.
configuredKeepingSets(inst, config) ==
    IF inst # <<>>
    THEN [ inst[1] EXCEPT !.config = MergeConfig(inst[1].config, config) ]
    ELSE SingletonNew(config)

\* The engine after PolicyEngine.configure(config) when PolicyEngine.instance
\* is inst
configuredFrom(inst, config) ==
    IF inst # <<>>
    THEN LET c == MergeConfig(inst[1].config, config)
         IN  [ config |-> c, allowSet |-> SetOf(c.allowlist),
               blockSet |-> SetOf(c.blocklist) ]
    ELSE SingletonNew(config)

\* The engine after PolicyEngine.configure(config)
configured(config) == configuredFrom(instance, config)

\* engine.addToAllowListBulk(packages): each name, and its node: form unless
\* it is scoped or has a subpath
addToAllowListBulk(engine, packages) ==
    [ engine EXCEPT !.allowSet =
        @ \cup SetOf(packages)
          \cup { NodePrefix \o pkg : pkg \in { q \in SetOf(packages) :
                    ~StartsWith(q, <<"@">>) /\ ~Includes(q, "/") } } ]

\* PolicyEngine.extractPackageName of the singleton class
SingletonExtractPackageName(moduleId) ==
    LET normalized == IF StartsWith(moduleId, NodePrefix)
                      THEN SubSeq(moduleId, 6, Len(moduleId))
                      ELSE moduleId
    IN  IF StartsWith(normalized, <<"@">>)
        THEN LET parts == Split(normalized)
             IN  IF Len(parts) >= 2
                 THEN parts[1] \o <<"/">> \o parts[2]
                 ELSE normalized
        ELSE LET slashIndex == IndexOf(normalized, "/")
             IN  IF slashIndex # 0
                 THEN SubSeq(normalized, 1, slashIndex - 1)
                 ELSE normalized

\* The position of a level in ['silent', 'error', 'warn', 'info', 'debug']
LevelIndex(level) ==
    CASE level = "silent" -> 0 [] level = "error" -> 1 [] level = "warn" -> 2
      [] level = "info" -> 3 [] level = "debug" -> 4

\* PolicyEngine.log: <<level>> when the message is printed, <<>> when the
\* configured level filters it out.
log(config, level) ==
    IF LevelIndex(level) <= LevelIndex(config.logLevel) /\ LevelIndex(config.logLevel) > 0
    THEN <<level>> ELSE <<>>

\* What a check does: ret is "true", "false" or "SecurityError" (thrown);
\* blocked tells that handleBlock was reached; printed is what log printed.
CheckResult(ret, blocked, printed) ==
    [ ret |-> ret, blocked |-> blocked, printed |-> printed ]

\* PolicyEngine.handleBlock
handleBlock(config) ==
    CASE config.mode = "enforce" -> CheckResult("SecurityError", TRUE, <<>>)
      [] config.mode = "warn" -> CheckResult("false", TRUE, log(config, "warn"))
      [] config.mode = "audit" -> CheckResult("true", TRUE, log(config, "info"))

\* The dangerous test as it would be if it knew the bare names only.
IsDangerousBareOnly(request) == request \in DANGEROUS_BUILTINS

\* `this.dangerousSet.has(request) || this.dangerousSet.has(packageName)`
IsDangerous(request) ==
    request \in dangerousSet \/ SingletonExtractPackageName(request) \in dangerousSet

\* The allowlist test as it would be if nothing were ever found on the list.
InAllowSetNever(engine, request) == FALSE

\* `this.allowSet.has(packageName) || this.allowSet.has(request)`
InAllowSet(engine, request) ==
    SingletonExtractPackageName(request) \in engine.allowSet \/ request \in engine.allowSet

\* PolicyEngine.check
check(engine, request) ==
    LET packageName == SingletonExtractPackageName(request)
    IN  IF StartsWith(request, DotSlash) \/ StartsWith(request, DotDotSlash)
        THEN CheckResult("true", FALSE, <<>>)
        ELSE IF InAllowSet(engine, request)
        THEN CheckResult("true", FALSE, <<>>)
        ELSE IF IsDangerous(request) /\ ~engine.config.allowDangerousBuiltins
        THEN handleBlock(engine.config)
        ELSE IF packageName \in engine.blockSet \/ request \in engine.blockSet
        THEN handleBlock(engine.config)
        ELSE CheckResult("true", FALSE, <<>>)

\* PolicyEngine.configure(config)
Configure(config) ==
    /\ stack = <<>>
    /\ instance' = <<configured(config)>>
    /\ lastCall' = Call("configure", <<config>>, instance # <<>>)
    /\ UNCHANGED << requireVars, primordialVars, netVars, fsVars, evalVars, callVars, host, shieldVars, levVars, indexVars >>

\* What addToAllowList and addToBlockList add for pkg: the name, and its node:
\* form unless it is scoped or has a subpath.
Added(pkg) ==
    IF ~StartsWith(pkg, <<"@">>) /\ ~Includes(pkg, "/")
    THEN { pkg, NodePrefix \o pkg } ELSE { pkg }

\* PolicyEngine.getInstance().addToAllowList(pkg)
AddToAllowList(pkg) ==
    /\ stack = <<>>
    /\ instance' = <<[ getInstance EXCEPT !.allowSet = @ \cup Added(pkg) ]>>
    /\ lastCall' = Call("addToAllowList", <<pkg>>, instance # <<>>)
    /\ UNCHANGED << requireVars, primordialVars, netVars, fsVars, evalVars, callVars, host, shieldVars, levVars, indexVars >>

\* PolicyEngine.getInstance().addToBlockList(pkg)
AddToBlockList(pkg) ==
    /\ stack = <<>>
    /\ instance' = <<[ getInstance EXCEPT !.blockSet = @ \cup Added(pkg) ]>>
    /\ lastCall' = Call("addToBlockList", <<pkg>>, instance # <<>>)
    /\ UNCHANGED << requireVars, primordialVars, netVars, fsVars, evalVars, callVars, host, shieldVars, levVars, indexVars >>

\* PolicyEngine.getInstance().check(request): the engine that answered and
\* what it did.
Check(request) ==
    /\ stack = <<>>
    /\ instance' = <<getInstance>>
    /\ checked' = <<[ request |-> request, engine |-> getInstance,
                      did |-> check(getInstance, request) ]>>
    /\ lastCall' = Call("check", <<request>>, instance # <<>>)
    /\ UNCHANGED << guard, app, resolved, requireVars, primordialVars, netVars, fsVars,
                    evalVars, callVars, host, shieldVars, levVars >>

\* PolicyEngine.reset()
Reset ==
    /\ stack = <<>>
    /\ instance' = <<>>
    /\ lastCall' = Call("reset", <<>>, instance # <<>>)
    /\ UNCHANGED << requireVars, primordialVars, netVars, fsVars, evalVars, callVars, host, shieldVars, levVars, indexVars >>

\* The names the singleton is asked about and given.
ChildProcess == <<"c", "h", "i", "l", "d", "_", "p", "r", "o", "c", "e", "s", "s">>
WorkerThreads == <<"w", "o", "r", "k", "e", "r", "_", "t", "h", "r", "e", "a", "d", "s">>
SingletonNames == { <<"v", "m">>, <<"f", "s">>, <<"a", "b">> }

\* The forms a name is required in: bare, with node:, with a subpath, both.
Forms(name) ==
    { name, NodePrefix \o name, name \o <<"/", "x">>, NodePrefix \o name \o <<"/", "x">> }

CheckRequests ==
    UNION { Forms(n) : n \in SingletonNames \cup { ChildProcess, WorkerThreads, <<"o", "s">> } }
    \cup { <<"@", "s", "/", "p">>, DotSlash \o <<"v", "m">> }

\* The configurations the singleton is given directly.  A run sets the
\* singleton up and then asks it about one request.
SingletonConfigs ==
    { [ mode |-> m, allowDangerousBuiltins |-> d, blocklist |-> b,
        allowlist |-> a, logLevel |-> <<>> ] :
        m \in { <<>>, <<"warn">>, <<"audit">> },
        d \in { <<>>, <<TRUE>> },
        b \in { <<>>, << <<>> >>, << << <<"a", "b">>, <<"v", "m">> >> >> },
        a \in { <<>>, << << <<"v", "m">> >> >> } }

InitSingleton ==
    /\ HooksPristine("original", "original")
    /\ EvalIdle
    /\ instance = <<>>
    /\ CallsIdle
    /\ ShieldIdle
    /\ LevIdle
    /\ IndexIdle
    /\ lastCall = Call("load", <<>>, FALSE)

NextSingleton ==
    \/ checked = <<>> /\ \E c \in SingletonConfigs : Configure(c)
    \/ checked = <<>> /\ AddToAllowList(<<"v", "m">>)
    \/ checked = <<>> /\ AddToBlockList(<<"a", "b">>)
    \/ checked = <<>> /\ \E request \in CheckRequests : Check(request)
    \/ checked = <<>> /\ Reset

SpecSingleton == InitSingleton /\ [][NextSingleton]_vars

-----------------------------------------------------------------------------
(* src/loader.mjs: the resolve hook of the ESM loader                      *)

\* DANGEROUS_MODULES
DANGEROUS_MODULES ==
    { ChildProcess, NodePrefix \o ChildProcess, <<"v", "m">>, NodePrefix \o <<"v", "m">>,
      WorkerThreads, NodePrefix \o WorkerThreads }

FileUrl == <<"f", "i", "l", "e", ":", "/", "/">>

\* The loader's `initialized` (with it policyEngine and securityErrorClass are
\* set: the three are assigned together).
LoaderInitialized == resolved # <<>> /\ resolved[1].initialized

\* The record of a call of resolve: what it was asked, whether it went on to
\* nextResolve or threw and what, whether the policy engine was consulted, and
\* the loader's `initialized` after it.
Resolved(specifier, outcome, error, consulted, initialized) ==
    [ specifier |-> specifier, outcome |-> outcome, error |-> error,
      consulted |-> consulted, initialized |-> initialized ]

\* resolve(specifier, context, nextResolve).  imports tells whether the
\* dynamic imports of ensureInitialized succeed.  The loader holds the
\* singleton it got from getInstance, which PolicyEngine.configure updates in
\* place.
Resolve(specifier, imports) ==
    /\ stack = <<>>
    /\ IF \/ StartsWith(specifier, DotSlash) \/ StartsWith(specifier, DotDotSlash)
          \/ StartsWith(specifier, <<"/">>) \/ StartsWith(specifier, FileUrl)
       THEN /\ resolved' = <<Resolved(specifier, "next", <<>>, FALSE, LoaderInitialized)>>
            /\ UNCHANGED instance
       ELSE IF specifier \in DANGEROUS_MODULES
       THEN /\ resolved' = <<Resolved(specifier, "throw", <<"ReqguardError">>, FALSE,
                                      LoaderInitialized)>>
            /\ UNCHANGED instance
       ELSE IF ~LoaderInitialized /\ ~imports
       THEN /\ resolved' = <<Resolved(specifier, "next", <<>>, FALSE, FALSE)>>
            /\ UNCHANGED instance
       ELSE LET engine == getInstance
                co == check(engine, specifier)
            IN  /\ instance' = <<engine>>
                /\ resolved' = << IF co.ret # "true"
                                  THEN Resolved(specifier, "throw", <<"SecurityError">>, TRUE, TRUE)
                                  ELSE Resolved(specifier, "next", <<>>, TRUE, TRUE) >>
    /\ lastCall' = Call("resolve", <<specifier>>, LoaderInitialized)
    /\ UNCHANGED << guard, app, checked, requireVars, primordialVars, netVars, fsVars,
                    evalVars, callVars, host, shieldVars, levVars >>

\* The specifiers that are imported.
ImportSpecifiers ==
    CheckRequests \cup { <<"/", "a", "b">>, FileUrl \o <<"/", "a", "b">> }

InitLoader ==
    /\ HooksPristine("original", "original")
    /\ EvalIdle
    /\ instance = <<>>
    /\ CallsIdle
    /\ ShieldIdle
    /\ LevIdle
    /\ IndexIdle
    /\ lastCall = Call("load", <<>>, FALSE)

\* The singleton is configured and the require hook installed; then modules
\* are imported.
NextLoader ==
    \/ resolved = <<>> /\ \E c \in SingletonConfigs : Configure(c)
    \/ resolved = <<>> /\ hookRequire(<<>>)
    \/ \E specifier \in ImportSpecifiers, imports \in BOOLEAN : Resolve(specifier, imports)

SpecLoader == InitLoader /\ [][NextLoader]_vars

-----------------------------------------------------------------------------
(* The four hooks as a state machine: any sequence of installs and         *)
(* uninstalls, on hosts with and without global.fetch and                  *)
(* fs.promises.opendir.                                                    *)

InitHooks ==
    /\ \E fetch \in { "original", "undefined" }, opendir \in { "original", "undefined" } :
          HooksPristine(fetch, opendir)
    /\ EvalIdle
    /\ instance = <<>>
    /\ CallsIdle
    /\ ShieldIdle
    /\ LevIdle
    /\ IndexIdle
    /\ lastCall = Call("load", <<>>, FALSE)

NextHooks ==
    \/ \E a \in OptAnalyzer : hookRequire(a)
    \/ restoreRequire
    \/ \E a \in OptAnalyzer : setAnalyzer(a)
    \/ lockdownPrimordials
    \/ restorePrimordials
    \/ activateNetworkShield
    \/ deactivateNetworkShield
    \/ activateFsShield
    \/ deactivateFsShield

SpecHooks == InitHooks /\ [][NextHooks]_vars


-----------------------------------------------------------------------------
(* src/core/cjs-interceptor.ts: patchedRequire, and the calls of require   *)

\* The deepest nesting of require calls: a call, the calls its analyzer or the
\* module it loads makes, and so on.
MaxDepth == 2

\* The module ids callers require.
Requests ==
    { NodePrefix \o <<"v", "m">>, <<"a", "b">>, DotSlash \o <<"a", "b">> }

\* The configurations the singleton is given.
Configs ==
    { [ mode |-> m, allowDangerousBuiltins |-> <<>>, blocklist |-> b,
        allowlist |-> <<>>, logLevel |-> l ] :
        m \in { <<>>, <<"enforce">>, <<"warn">>, <<"audit">> },
        b \in { <<>>, << <<>> >>, << << <<"a", "b">> >> >> },
        l \in { <<>>, <<"silent">>, <<"info">> } }

\* What user code throws: an instance of SecurityError, a plain Error whose
\* message starts with '[reqguard]', any other error.
ErrorKinds == { "SecurityError", "ReqguardError", "Error" }

\* A require call in progress.  pc is "analyzer" while the analyzer callback
\* runs, "loading" while the original require runs, "done" when the call has
\* returned or thrown.  via is the handler that was called; guarded tells that
\* the recursion guard was set on entry; chk is what engine.check did and mode
\* the mode of the engine that did it, ran the
\* analyzer that was invoked and arg the module id it was given, threw what
\* the analyzer (or resolving the path for it) threw, origArg the argument the
\* original require was called with, result what the caller observes.
NewFrame(id) ==
    [ id |-> id, pc |-> "enter", via |-> moduleRequire, guarded |-> FALSE,
      chk |-> <<>>, mode |-> <<>>, ran |-> <<>>, arg |-> <<>>, threw |-> <<>>,
      origArg |-> <<>>, loaded |-> <<>>, result |-> <<>> ]

\* patchedRequire's forwarding as it would be if it passed the id without its
\* node: prefix.
ForwardedIdStripped(id) ==
    IF StartsWith(id, NodePrefix) THEN SubSeq(id, 6, Len(id)) ELSE id

\* The argument of `originalRequire!.call(this, id)`
ForwardedId(id) == id

\* `return originalRequire!.call(this, id)`: the original require is entered,
\* or the call fails with a TypeError when originalRequire is null.
CallOriginal(f) ==
    IF originalRequire = <<>>
    THEN [ f EXCEPT !.pc = "done", !.result = <<"TypeError">> ]
    ELSE [ f EXCEPT !.pc = "loading", !.origArg = <<ForwardedId(f.id)>> ]

\* `if (analyzerError instanceof SecurityError) throw analyzerError`
InnerCatchRethrows(kind) == kind = "SecurityError"

\* The outer catch as it would be if it rethrew nothing.
OuterCatchRethrowsNothing(kind) == FALSE

\* The outer catch: a SecurityError, or an Error whose message starts with
\* '[reqguard]', is thrown again; anything else is dropped.
OuterCatchRethrows(kind) == kind = "SecurityError" \/ kind = "ReqguardError"

\* The two catches as they would be if every analyzer error reached the caller.
AnalyzerErrorPropagatesAlways(kind) == TRUE

\* An error thrown by the analyzer, or by resolving the path for it, reaches
\* the caller: the inner catch must throw it again and the outer one too.
AnalyzerErrorPropagates(kind) == InnerCatchRethrows(kind) /\ OuterCatchRethrows(kind)

\* patchedRequire after the analyzer section threw kind
AfterAnalyzerError(f, kind) ==
    IF AnalyzerErrorPropagates(kind)
    THEN [ f EXCEPT !.threw = <<kind>>, !.pc = "done", !.result = <<kind>> ]
    ELSE CallOriginal([ f EXCEPT !.threw = <<kind>> ])

\* The recursion guard as it would be if it never took the fast path.
FastPathRecursionNever == FALSE

\* `if (isChecking)` of patchedRequire
FastPathRecursion == isChecking

\* The recursion guard as it would be left if the finally block were missing.
FinallyFlagKept == TRUE

\* `finally { isChecking = false; }` of patchedRequire
FinallyFlag == FALSE

\* require(id) up to the first point where user code runs: the frame of the
\* call, the recursion guard and the singleton as they are then.  resolves
\* tells whether Module._resolveFilename finds the module.
EnteredVia(handler, id, resolves) ==
    LET f0 == [ NewFrame(id) EXCEPT !.via = handler ]
        keep(f) == [ frame |-> f, checking |-> isChecking, engine |-> instance ]
    IN  IF handler # "patchedRequire"
        THEN keep([ f0 EXCEPT !.pc = "loading", !.origArg = <<id>> ])
        ELSE IF FastPathRecursion
        THEN keep(CallOriginal([ f0 EXCEPT !.guarded = TRUE ]))
        ELSE IF StartsWith(id, DotSlash) \/ StartsWith(id, DotDotSlash)
        THEN keep(CallOriginal(f0))
        ELSE
        LET moduleId == IF StartsWith(id, NodePrefix) THEN SubSeq(id, 6, Len(id)) ELSE id
            engine == getInstance
            co == check(engine, id)
            f1 == [ f0 EXCEPT !.chk = <<co>>, !.mode = <<engine.config.mode>> ]
            \* the finally block has cleared the guard in every case but the
            \* one where the analyzer is running
            out(f) == [ frame |-> f, engine |-> <<engine>>,
                        checking |-> IF f.pc = "analyzer" THEN TRUE ELSE FinallyFlag ]
        IN  IF co.ret # "true"
            THEN \* check threw a SecurityError, or returned false and
                 \* patchedRequire throws one itself
                 IF OuterCatchRethrows("SecurityError")
                 THEN out([ f1 EXCEPT !.pc = "done", !.result = <<"SecurityError">> ])
                 ELSE out(CallOriginal(f1))
            ELSE IF analyzerCallback = <<>>
            THEN out(CallOriginal(f1))
            ELSE IF ~resolves
            THEN out(AfterAnalyzerError(f1, "Error"))
            ELSE out([ f1 EXCEPT !.pc = "analyzer", !.ran = analyzerCallback,
                                 !.arg = <<moduleId>> ])

\* require(id) through the handler in Module.prototype.require
Entered(id, resolves) == EnteredVia(moduleRequire, id, resolves)

Top == stack[Len(stack)]
SetTop(f) == [ stack EXCEPT ![Len(stack)] = f ]

\* A top-level require(id)
Require(id, resolves) ==
    /\ stack = <<>>
    /\ LET e == Entered(id, resolves)
       IN  /\ stack' = <<e.frame>>
           /\ isChecking' = e.checking
           /\ instance' = e.engine
    /\ lastCall' = Call("require", <<id>>, isHooked)
    /\ UNCHANGED << moduleRequire, originalRequire, isHooked, analyzerCallback, hookSeq,
                    evalVars, primordialVars, netVars, fsVars, host, shieldVars, levVars, indexVars >>

\* The frame state every step of a call in progress leaves alone.
CallFrame ==
    UNCHANGED << moduleRequire, originalRequire, isHooked, analyzerCallback, hookSeq,
                 lastCall, evalVars, primordialVars, netVars, fsVars, host, shieldVars, levVars, indexVars >>

\* The analyzer callback calls require(id).
AnalyzerRequire(id, resolves) ==
    /\ stack # <<>> /\ Top.pc = "analyzer" /\ Len(stack) < MaxDepth
    /\ LET e == Entered(id, resolves)
       IN  /\ stack' = Append(stack, e.frame)
           /\ isChecking' = e.checking
           /\ instance' = e.engine
    /\ CallFrame

\* The module being loaded by the original require calls require(id).
LoadRequire(id, resolves) ==
    /\ stack # <<>> /\ Top.pc = "loading" /\ Len(stack) < MaxDepth
    /\ LET e == Entered(id, resolves)
       IN  /\ stack' = Append(stack, e.frame)
           /\ isChecking' = e.checking
           /\ instance' = e.engine
    /\ CallFrame

\* The analyzer callback returns: the finally block clears the guard and the
\* original require is called.
AnalyzerReturn ==
    /\ stack # <<>> /\ Top.pc = "analyzer"
    /\ stack' = SetTop(CallOriginal(Top))
    /\ isChecking' = FinallyFlag
    /\ UNCHANGED instance
    /\ CallFrame

\* The analyzer callback throws.
AnalyzerThrow(kind) ==
    /\ stack # <<>> /\ Top.pc = "analyzer"
    /\ stack' = SetTop(AfterAnalyzerError(Top, kind))
    /\ isChecking' = FinallyFlag
    /\ UNCHANGED instance
    /\ CallFrame

\* The original require returns the module's exports, which patchedRequire
\* returns.
LoadReturn ==
    /\ stack # <<>> /\ Top.pc = "loading"
    /\ stack' = SetTop([ Top EXCEPT !.pc = "done", !.loaded = <<"exports">>,
                                    !.result = <<"exports">> ])
    /\ UNCHANGED << isChecking, instance >>
    /\ CallFrame

\* The original require throws (the module is missing, or its code throws),
\* and patchedRequire lets the error through.
LoadThrow(kind) ==
    /\ stack # <<>> /\ Top.pc = "loading"
    /\ stack' = SetTop([ Top EXCEPT !.pc = "done", !.loaded = <<kind>>,
                                    !.result = <<kind>> ])
    /\ UNCHANGED << isChecking, instance >>
    /\ CallFrame

\* A finished call hands its result to its caller.
Return ==
    /\ stack # <<>> /\ Top.pc = "done"
    /\ stack' = SubSeq(stack, 1, Len(stack) - 1)
    /\ UNCHANGED << isChecking, instance >>
    /\ CallFrame

InitRequire ==
    /\ HooksPristine("original", "original")
    /\ EvalIdle
    /\ instance = <<>>
    /\ CallsIdle
    /\ ShieldIdle
    /\ LevIdle
    /\ IndexIdle
    /\ lastCall = Call("load", <<>>, FALSE)

NextRequire ==
    \/ \E a \in OptAnalyzer : hookRequire(a)
    \/ restoreRequire
    \/ \E a \in OptAnalyzer : setAnalyzer(a)
    \/ \E c \in Configs : Configure(c)
    \/ \E id \in Requests, r \in BOOLEAN : Require(id, r)
    \/ \E id \in Requests, r \in BOOLEAN : AnalyzerRequire(id, r)
    \/ \E id \in Requests, r \in BOOLEAN : LoadRequire(id, r)
    \/ AnalyzerReturn
    \/ \E k \in ErrorKinds : AnalyzerThrow(k)
    \/ LoadReturn
    \/ \E k \in ErrorKinds : LoadThrow(k)
    \/ Return

SpecRequire == InitRequire /\ [][NextRequire]_vars


-----------------------------------------------------------------------------
(* src/unnamed/part_002: the index that puts the rule engine behind the    *)
(* require hook (init, its analyzer callback, shutdown)                    *)

\* The callback init hands to hookRequire.
IndexAnalyzer == "indexCallback"

\* The callback throws `new Error('[reqguard] Blocked: ...')`: the decision is
\* block and the policy its closure holds is in enforce mode.  The decisions
\* warn, analyze and allow only log.
CallbackThrows(d, closurePolicy) ==
    d.action = "block" /\ closurePolicy.mode = "enforce"

\* init(config) of part_002.  The policy the callback reads is the one of the
\* engine built by the init that installed the hook; a later init replaces
\* the engine and nothing else.
policyInit(config) ==
    /\ stack = <<>>
    /\ LET created == PolicyEngineNew(config)
       IN  /\ policy' = created
           /\ IF guard.isInitialized
              THEN /\ guard' = [ guard EXCEPT !.engine = <<created>> ]
                   /\ UNCHANGED << moduleRequire, originalRequire, isHooked,
                                   analyzerCallback, hookSeq >>
              ELSE /\ guard' = [ isInitialized |-> TRUE, engine |-> <<created>>,
                                 policy |-> <<created>> ]
                   /\ HookRequireBody(<<IndexAnalyzer>>)
    /\ lastCall' = Call("init", <<config>>, guard.isInitialized)
    /\ UNCHANGED << evalModuleId, decision, match, isChecking, stack, app, checked, resolved,
                    primordialVars, netVars, fsVars, instance, host, shieldVars, levVars >>

\* shutdown() of part_002
policyShutdown ==
    /\ stack = <<>>
    /\ IF guard.isInitialized
       THEN /\ RestoreRequireBody
            /\ guard' = [ guard EXCEPT !.engine = <<>>, !.isInitialized = FALSE ]
       ELSE UNCHANGED << guard, moduleRequire, originalRequire, isHooked,
                         analyzerCallback, hookSeq >>
    /\ lastCall' = Call("shutdown", <<>>, guard.isInitialized)
    /\ UNCHANGED << evalVars, isChecking, stack, app, checked, resolved,
                    primordialVars, netVars, fsVars, instance, host, shieldVars, levVars >>

\* The callback, run by patchedRequire with the id stripped of node: and then
\* patchedRequire's two catches, finally block and forwarding.  Logging
\* prints and changes nothing.
IndexCallback ==
    /\ stack # <<>> /\ Top.pc = "analyzer" /\ Top.ran = <<IndexAnalyzer>>
    /\ IF guard.engine = <<>>
       THEN /\ stack' = SetTop(CallOriginal(Top))
            /\ UNCHANGED << evalModuleId, decision >>
       ELSE LET d == evaluate(guard.engine[1], Top.arg[1])
            IN  /\ evalModuleId' = Top.arg
                /\ decision' = <<d>>
                /\ stack' = SetTop(IF CallbackThrows(d, guard.policy[1])
                                   THEN AfterAnalyzerError(Top, "ReqguardError")
                                   ELSE CallOriginal(Top))
    /\ isChecking' = FinallyFlag
    /\ UNCHANGED << policy, match, moduleRequire, originalRequire, isHooked,
                    analyzerCallback, hookSeq, lastCall, instance, indexVars,
                    primordialVars, netVars, fsVars, host, shieldVars, levVars >>

\* The policies init is given: the mode, the allow and block lists and
\* builtins.allow, each given or left to its default.
GuardPolicies ==
    { [ mode |-> m, allow |-> a, block |-> b, warn |-> <<>>, builtinsAllow |-> ba,
        restricted |-> <<>>, analyze |-> <<>>, level |-> <<>> ] :
        m \in { <<>>, <<"warn">> },
        a \in { <<>>, << <<Rule(<<"a", "b">>, <<>>), Rule(<<"f", "s">>, <<>>)>> >> },
        b \in { << <<>> >> },
        ba \in { <<>>, <<FALSE>> } }

\* The module ids required while the index is in place.
GuardRequests ==
    { <<"a", "b">>, <<"b">>, <<"f", "s">>, NodePrefix \o <<"o", "s">>,
      DotSlash \o <<"a", "b">> }

InitGuard ==
    /\ HooksPristine("original", "original")
    /\ EvalIdle
    /\ instance = <<>>
    /\ CallsIdle
    /\ ShieldIdle
    /\ LevIdle
    /\ IndexIdle
    /\ lastCall = Call("load", <<>>, FALSE)

NextGuard ==
    \/ \E c \in GuardPolicies : policyInit(c)
    \/ policyShutdown
    \/ \E id \in GuardRequests, r \in BOOLEAN : Require(id, r)
    \/ IndexCallback
    \/ LoadReturn
    \/ \E k \in ErrorKinds : LoadThrow(k)
    \/ Return

SpecGuard == InitGuard /\ [][NextGuard]_vars

-----------------------------------------------------------------------------
(* src/unnamed/part_006 (bootstrap) and src/unnamed/part_003 (the index    *)
(* over the singleton and the shields): loadConfig, init, configure,       *)
(* shutdown, isActive                                                      *)

\* DEFAULT_CONFIG of the bootstrap
DEFAULT_REQGUARD_CONFIG ==
    [ mode |-> "enforce", allowDangerousBuiltins |-> FALSE,
      blocklist |-> <<>>, allowlist |-> <<>>, logLevel |-> "warn",
      typosquatDetection |-> TRUE, networkShield |-> TRUE, fsShield |-> TRUE,
      lockdownPrimordials |-> TRUE ]

\* The PolicyConfig init, configure and loadConfig hand to
\* PolicyEngine.configure: the five policy fields of a ReqGuardConfig, all given.
PolicyFields(config) == [ f \in DOMAIN DEFAULT_CONFIG |-> <<config[f]>> ]

\* loadConfig() on a project whose reqguard.json holds userConfig and whose
\* lockfile names lockfilePackages, called when PolicyEngine.instance is inst:
\* the merged configuration it returns and the singleton it leaves.
loadConfig(inst, userConfig, lockfilePackages) ==
    LET config == MergeConfig(DEFAULT_REQGUARD_CONFIG, userConfig)
        engine == configuredFrom(inst, PolicyFields(config))
    IN  [ config |-> config,
          engine |-> IF Len(lockfilePackages) > 0 /\ userConfig.allowlist = <<>>
                     THEN addToAllowListBulk(engine, lockfilePackages)
                     ELSE engine ]

\* A Partial<ReqGuardConfig>; a field not given is <<>>.
Partial(mode, blocklist, lockdown, network, fs) ==
    [ mode |-> mode, allowDangerousBuiltins |-> <<>>, blocklist |-> blocklist,
      allowlist |-> <<>>, logLevel |-> <<>>, typosquatDetection |-> <<>>,
      networkShield |-> network, fsShield |-> fs, lockdownPrimordials |-> lockdown ]

\* What reqguard.json holds (nothing when there is no file), and the package
\* names of the lockfile.
ConfigFiles ==
    { Partial(<<>>, <<>>, <<>>, <<>>, <<>>), Partial(<<"audit">>, <<>>, <<>>, <<>>, <<FALSE>>) }
Lockfiles == { <<>>, << <<"a", "b">> >> }

\* The configurations init and configure are called with.
AppConfigs ==
    { Partial(m, b, l, n, f) :
        m \in { <<>>, <<"warn">> }, b \in { <<>> },
        l \in { <<>>, <<FALSE>> }, n \in { <<>>, <<FALSE>> }, f \in { <<>>, <<FALSE>> } }

\* The callback init hands to hookRequire.
TyposquatAnalyzer == "typosquatCallback"

\* The hooks after configure, as they would be if it took the filesystem
\* shield down when fsShield is set to false.
ConfigureHooksApplied(config) ==
    /\ UNCHANGED << moduleRequire, originalRequire, isHooked, analyzerCallback, hookSeq,
                    primordialVars, netVars >>
    /\ IF config.fsShield = <<FALSE>> THEN DeactivateFsShieldBody ELSE UNCHANGED fsVars

\* The hooks after configure(config): it calls PolicyEngine.configure and
\* nothing else.
ConfigureHooks(config) ==
    UNCHANGED << moduleRequire, originalRequire, isHooked, analyzerCallback, hookSeq,
                 primordialVars, netVars, fsVars >>

\* configure(config) of part_003: currentConfig, the singleton and the hooks
\* after it
ConfigureBody(config) ==
    /\ IF app.currentConfig # <<>>
       THEN LET merged == MergeConfig(app.currentConfig[1], config)
            IN  /\ app' = [ app EXCEPT !.currentConfig = <<merged>> ]
                /\ instance' = <<configuredFrom(instance, PolicyFields(merged))>>
       ELSE \E userConfig \in ConfigFiles, lockfilePackages \in Lockfiles :
               LET loaded == loadConfig(instance, userConfig, lockfilePackages)
                   merged == MergeConfig(loaded.config, config)
               IN  /\ app' = [ app EXCEPT !.currentConfig = <<merged>> ]
                   /\ instance' = <<configuredFrom(<<loaded.engine>>, PolicyFields(merged))>>
    /\ ConfigureHooks(config)

\* configure(config) called from user code
configure(config) ==
    /\ stack = <<>>
    /\ ConfigureBody(config)
    /\ lastCall' = Call("configure", <<config>>, app.isInitialized)
    /\ UNCHANGED << guard, checked, resolved, evalVars, isChecking, stack, host, shieldVars, levVars >>

\* init(config?) of part_003; config is <<>> when the argument is left out.
init(config) ==
    /\ stack = <<>>
    /\ IF app.isInitialized
       THEN IF config # <<>>
            THEN ConfigureBody(config[1])
            ELSE UNCHANGED << app, instance, moduleRequire, originalRequire, isHooked,
                              analyzerCallback, hookSeq, primordialVars, netVars, fsVars >>
       ELSE \E userConfig \in ConfigFiles, lockfilePackages \in Lockfiles :
               LET loaded == loadConfig(instance, userConfig, lockfilePackages)
                   given == IF config # <<>> THEN config[1]
                            ELSE [ f \in DOMAIN DEFAULT_REQGUARD_CONFIG |-> <<>> ]
                   merged == MergeConfig(loaded.config, given)
               IN  /\ app' = [ isInitialized |-> TRUE, currentConfig |-> <<merged>> ]
                   /\ instance' = <<configuredFrom(<<loaded.engine>>, PolicyFields(merged))>>
                   /\ HookRequireBody(<<TyposquatAnalyzer>>)
                   /\ IF merged.lockdownPrimordials
                      THEN LockdownPrimordialsBody ELSE UNCHANGED primordialVars
                   /\ IF merged.networkShield
                      THEN ActivateNetworkShieldBody ELSE UNCHANGED netVars
                   /\ IF merged.fsShield
                      THEN ActivateFsShieldBody ELSE UNCHANGED fsVars
    /\ lastCall' = Call("init", config, app.isInitialized)
    /\ UNCHANGED << guard, checked, resolved, evalVars, isChecking, stack, host, shieldVars, levVars >>

\* shutdown() of part_003
shutdown ==
    /\ stack = <<>>
    /\ IF ~app.isInitialized
       THEN UNCHANGED << app, instance, moduleRequire, originalRequire, isHooked,
                         analyzerCallback, hookSeq, primordialVars, netVars, fsVars >>
       ELSE /\ RestoreRequireBody
            /\ RestorePrimordialsBody
            /\ DeactivateNetworkShieldBody
            /\ DeactivateFsShieldBody
            /\ instance' = <<>>
            /\ app' = [ isInitialized |-> FALSE, currentConfig |-> <<>> ]
    /\ lastCall' = Call("shutdown", <<>>, app.isInitialized)
    /\ UNCHANGED << guard, checked, resolved, evalVars, isChecking, stack, host, shieldVars, levVars >>

\* isActive()
isActive == app.isInitialized

InitApp ==
    /\ \E fetch \in { "original", "undefined" }, opendir \in { "original", "undefined" } :
          HooksPristine(fetch, opendir)
    /\ EvalIdle
    /\ instance = <<>>
    /\ CallsIdle
    /\ ShieldIdle
    /\ LevIdle
    /\ IndexIdle
    /\ lastCall = Call("load", <<>>, FALSE)

NextApp ==
    \/ \E c \in { <<>> } \cup { <<x>> : x \in AppConfigs } : init(c)
    \/ \E c \in AppConfigs : configure(c)
    \/ shutdown

SpecApp == InitApp /\ [][NextApp]_vars

-----------------------------------------------------------------------------
(* src/core/fs-shield.ts and src/core/network-shield.ts: the predicates    *)
(* and the patched entry points                                            *)

UpperCase == << "A", "B", "C", "D", "E", "F", "G", "H", "I", "J", "K", "L", "M", "N", "O", "P", "Q", "R", "S", "T", "U", "V", "W", "X", "Y", "Z" >>
LowerCase == << "a", "b", "c", "d", "e", "f", "g", "h", "i", "j", "k", "l", "m", "n", "o", "p", "q", "r", "s", "t", "u", "v", "w", "x", "y", "z" >>

\* String.prototype.toLowerCase, on the ASCII letters
ToLowerCase(s) ==
    LET lower == [ i \in 1..Len(s) |->
                     IF \E k \in 1..26 : UpperCase[k] = s[i]
                     THEN LowerCase[CHOOSE k \in 1..26 : UpperCase[k] = s[i]]
                     ELSE s[i] ]
    IN  SubSeq(lower, 1, Len(s))

\* s.replace(/\\/g, '/')
ReplaceBackslashes(s) ==
    SubSeq([ i \in 1..Len(s) |-> IF s[i] = "\\" THEN "/" ELSE s[i] ], 1, Len(s))

\* String.prototype.includes(p) for a string p
IncludesString(s, p) ==
    \E i \in 1..(Len(s) - Len(p) + 1) : SubSeq(s, i, i + Len(p) - 1) = p

\* Array.prototype.includes
InList(list, v) == \E i \in 1..Len(list) : list[i] = v

\* path.basename (posix): trailing slashes are dropped, then what follows the
\* last slash is taken.
RECURSIVE Basename(_)
Basename(s) ==
    IF Len(s) > 1 /\ s[Len(s)] = "/" THEN Basename(SubSeq(s, 1, Len(s) - 1))
    ELSE IF s = <<"/">> THEN <<>>
    ELSE IF \E i \in 1..Len(s) : s[i] = "/"
    THEN LET last == CHOOSE i \in 1..Len(s) : s[i] = "/" /\ \A j \in (i + 1)..Len(s) : s[j] # "/"
         IN  SubSeq(s, last + 1, Len(s))
    ELSE s

\* The first argument of an fs call: a string, a Buffer (text is its utf8
\* content), a URL (text is its pathname), a file descriptor number, or a
\* FileHandle object.
PathArg(kind, text) == [ kind |-> kind, text |-> text ]

\* The suffix test of isBlockedPath as it would be if it were left out.
EndsWithBlockedSuffixNever(normalizedPath) == FALSE

\* FAST PATH 3 of isBlockedPath
EndsWithBlockedSuffix(normalizedPath) ==
    \E i \in 1..Len(BLOCKED_SUFFIXES) : EndsWith(normalizedPath, BLOCKED_SUFFIXES[i])

\* `typeof filePath === 'number'`
IsDescriptor(filePath) == filePath.kind = "fd"

\* isBlockedPath(filePath): "true" or "false", or "TypeError" when the
\* argument is neither a number, a Buffer, a URL nor a string, so that
\* pathStr.replace is not a function.
isBlockedPath(filePath) ==
    IF IsDescriptor(filePath) THEN "false"
    ELSE IF filePath.kind \notin { "string", "Buffer", "URL" } THEN "TypeError"
    ELSE LET pathStr == filePath.text
             normalizedPath == ToLowerCase(ReplaceBackslashes(pathStr))
             basename == Basename(normalizedPath)
         IN  IF \/ InList(ruleArrays.filenames, basename)
                \/ \E i \in 1..Len(ruleArrays.patterns) :
                      IncludesString(normalizedPath, ToLowerCase(ruleArrays.patterns[i]))
                \/ EndsWithBlockedSuffix(normalizedPath)
             THEN "true" ELSE "false"

\* isBlockedAddress(address)
isBlockedAddress(address) ==
    \/ InList(ruleArrays.ips, address)
    \/ InList(ruleArrays.hosts, ToLowerCase(address))
    \/ StartsWith(address, <<"1", "6", "9", ".", "2", "5", "4", ".">>)
    \/ StartsWith(ToLowerCase(address), <<":", ":", "f", "f", "f", "f", ":", "1", "6", "9", ".", "2", "5", "4", ".">>)
    \/ StartsWith(ToLowerCase(address), <<"f", "e", "8", "0", ":", ":">>)

\* new URL(url).hostname for the url 'http://<host>/', where an IPv6 address
\* is written in brackets: a name comes back in lower case, an IPv6 address in
\* brackets.
UrlHostname(authority) ==
    IF Includes(authority, ":") THEN <<"[">> \o ToLowerCase(authority) \o <<"]">>
    ELSE ToLowerCase(authority)

\* What a call of a guarded entry point did.  via is the handler that was in
\* the entry point; candidate what was given to the predicate (<<>> if it was
\* not consulted); orig the arguments the original was called with (<<>> if
\* it was not called); outcome is "result" (what the original did is what the
\* caller gets), "throw" (a synchronous throw), "reject" (a rejected promise),
\* "callback" (the completion callback was called before the call returned),
\* "queued" (the callback was queued with process.nextTick and the call
\* returned); error is what was thrown or handed over; mode is the mode the
\* policy engine was configured with at the time (<<>> if it was not).
IoCall(entry, args, via, candidate, orig, outcome, error) ==
    [ entry |-> entry, args |-> args, via |-> via, candidate |-> candidate,
      orig |-> orig, outcome |-> outcome, error |-> error,
      mode |-> IF instance = <<>> THEN <<>> ELSE <<instance[1].config.mode>> ]

\* The original entry point is called with the arguments of the call.
Forward(entry, args, via, candidate) ==
    IoCall(entry, args, via, candidate, <<args>>, "result", <<>>)

\* A blocked call of a synchronous entry point, or of a callback one without
\* a callback: `throw createBlockedFileError(filePath)`.
BlockSync(entry, args, candidate) ==
    IoCall(entry, args, "patched", candidate, <<>>, "throw", <<"SecurityError">>)

\* A blocked call of an async function: the throw rejects its promise.
BlockAsync(entry, args, candidate) ==
    IoCall(entry, args, "patched", candidate, <<>>, "reject", <<"SecurityError">>)

\* patchedReadFile / patchedOpen as they would be if they called the callback
\* themselves, before returning.
BlockCallbackFsInline(entry, args, candidate) ==
    IF args.cb
    THEN IoCall(entry, args, "patched", candidate, <<>>, "callback", <<"SecurityError">>)
    ELSE IoCall(entry, args, "patched", candidate, <<>>, "throw", <<"SecurityError">>)

\* patchedReadFile / patchedOpen on a blocked path: with a callback, the error
\* is queued with process.nextTick and the call returns.
BlockCallbackFs(entry, args, candidate) ==
    IF args.cb
    THEN IoCall(entry, args, "patched", candidate, <<>>, "queued", <<"SecurityError">>)
    ELSE BlockSync(entry, args, candidate)

\* `return originalReadFileSync!(filePath, options)` and its six likes: the
\* saved original is called, or the call fails with a TypeError when the saved
\* original is null (inside an async function the failure rejects its promise).
ForwardOriginal(entry, args, candidate) ==
    IF fsOriginal[entry] = <<>>
    THEN IoCall(entry, args, "patched", candidate, <<>>,
                IF entry \in { "promises.readFile", "promises.open", "promises.opendir" }
                THEN "reject" ELSE "throw", <<"TypeError">>)
    ELSE Forward(entry, args, "patched", candidate)

\* The test for a FileHandle as it would be if it were left out.
IsFileHandleNever(path) == FALSE

\* `typeof path === 'object' && path !== null && 'fd' in path`
IsFileHandle(path) == path.kind = "FileHandle"

\* The patched fs entry points: patchedReadFileSync, patchedReadFile,
\* patchedOpenSync, patchedOpen, patchedPromisesReadFile, patchedPromisesOpen,
\* patchedPromisesOpendir.  args is [path, cb]: the first argument and whether
\* the last one is a function.
PatchedFs(entry, args) ==
    LET candidate == <<args.path>>
        promise == entry \in { "promises.readFile", "promises.open", "promises.opendir" }
    IN  IF entry = "promises.readFile" /\ IsFileHandle(args.path)
        THEN ForwardOriginal(entry, args, <<>>)
        ELSE IF isBlockedPath(args.path) = "TypeError"
        THEN IoCall(entry, args, "patched", candidate, <<>>,
                    IF promise THEN "reject" ELSE "throw", <<"TypeError">>)
        ELSE IF isBlockedPath(args.path) = "false"
        THEN ForwardOriginal(entry, args, candidate)
        ELSE IF entry \in { "readFileSync", "openSync" }
        THEN BlockSync(entry, args, candidate)
        ELSE IF entry \in { "readFile", "open" }
        THEN BlockCallbackFs(entry, args, candidate)
        ELSE BlockAsync(entry, args, candidate)

\* The host patchedConnect takes from its arguments: options.host of an options
\* object, the second argument of the (port, host) form, the first argument
\* of the (path) form when it contains '.' or ':'.
ConnectHost(args) ==
    IF args.form = "options" \/ args.form = "positional" THEN args.host
    ELSE IF args.host # <<>> /\ (Includes(args.host[1], ".") \/ Includes(args.host[1], ":"))
    THEN args.host
    ELSE <<>>

\* patchedConnect
PatchedConnect(args) ==
    LET target == ConnectHost(args)
    IN  IF target # <<>> /\ target[1] # <<>> /\ isBlockedAddress(target[1])
        THEN BlockSync("connect", args, target)
        ELSE Forward("connect", args, "patched", target)

\* patchedLookup: on a blocked hostname the callback, if there is one, is
\* called with the error before patchedLookup returns.
PatchedLookup(args) ==
    IF isBlockedAddress(args.host[1])
    THEN IF args.cb
         THEN IoCall("lookup", args, "patched", args.host, <<>>, "callback", <<"SecurityError">>)
         ELSE BlockSync("lookup", args, args.host)
    ELSE Forward("lookup", args, "patched", args.host)

\* patchedFetch
PatchedFetch(args) ==
    LET hostname == UrlHostname(args.host[1])
    IN  IF isBlockedAddress(hostname)
        THEN BlockAsync("fetch", args, <<hostname>>)
        ELSE Forward("fetch", args, "patched", <<hostname>>)

\* The rule arrays are frozen (Object.freeze).
Frozen == TRUE

\* Array.prototype.push: on a frozen array it throws a TypeError and adds
\* nothing.
Push(list, v) ==
    IF Frozen THEN [ list |-> list, threw |-> <<"TypeError">> ]
    ELSE [ list |-> Append(list, v), threw |-> <<>> ]

\* The number of calls of guarded entry points in a run.
MaxCalls == 1

\* The paths files are read and opened by.
FsPaths ==
    { <<".", "e", "n", "v">>,
      <<"/", "a", "p", "p", "/", ".", "E", "N", "V">>,
      <<"a", "\\", ".", "e", "n", "v">>,
      <<"/", "a", "/", ".", "e", "n", "v", ".", "b", "a", "k">>,
      <<"/", "a", "/", "k", ".", "P", "E", "M">>,
      <<"/", "x", "/", "e", "t", "c", "/", "p", "a", "s", "s", "w", "d">>,
      <<"x", ".", "s", "s", "h", "/", "y">>,
      <<"/", "a", "/", "b", ".", "t", "x", "t">>,
      <<"/", "a", "/", ".", "e", "n", "v", "/">>,
      <<"m", "y", "_", "r", "s", "a">> }

\* The first arguments of the fs calls.
FsArgs ==
    { PathArg("string", t) : t \in FsPaths }
    \cup { PathArg("Buffer", <<".", "e", "n", "v">>), PathArg("Buffer", <<"/", "a", "/", "b", ".", "t", "x", "t">>),
           PathArg("URL", <<"/", "a", "p", "p", "/", ".", "e", "n", "v">>), PathArg("URL", <<"/", "a", "/", "b", ".", "t", "x", "t">>),
           PathArg("fd", <<>>) }

\* The hosts connections, lookups and requests are made to.
NetHosts ==
    { <<"1", "6", "9", ".", "2", "5", "4", ".", "1", "6", "9", ".", "2", "5", "4">>,
      <<"f", "d", "0", "0", ":", "e", "c", "2", ":", ":", "2", "5", "4">>,
      <<"M", "e", "t", "a", "d", "a", "t", "a", ".", "G", "o", "o", "g", "l", "e", ".", "I", "n", "t", "e", "r", "n", "a", "l">>,
      <<"1", "6", "9", ".", "2", "5", "4", ".", "1", ".", "1">>,
      <<":", ":", "F", "F", "F", "F", ":", "1", "6", "9", ".", "2", "5", "4", ".", "1", ".", "1">>,
      <<"F", "E", "8", "0", ":", ":", "1">>,
      <<"e", "x", "a", "m", "p", "l", "e", ".", "c", "o", "m">>,
      <<"1", "0", ".", "0", ".", "0", ".", "1">> }

\* The hosts written in a URL (an IPv4-mapped address is not among them: a URL
\* holds it in hexadecimal form).
UrlHosts == NetHosts \ { <<":", ":", "F", "F", "F", "F", ":", "1", "6", "9", ".", "2", "5", "4", ".", "1", ".", "1">> }

\* The arguments of socket.connect: an options object with or without a host,
\* (port, host), and (path).
ConnectArgs ==
    { [ form |-> "options", host |-> h, cb |-> FALSE ] : h \in { <<>> } \cup { <<n>> : n \in NetHosts } }
    \cup { [ form |-> "positional", host |-> <<n>>, cb |-> FALSE ] : n \in NetHosts }
    \cup { [ form |-> "path", host |-> <<n>>, cb |-> FALSE ] :
             n \in { <<"/", "t", "m", "p", "/", "s", "o", "c", "k">>, <<"1", "6", "9", ".", "2", "5", "4", ".", "1", "6", "9", ".", "2", "5", "4">> } }

\* The values given to the add functions.
AddedValues ==
    [ addBlockedFilename |-> <<"S", "e", "c", "r", "e", "t", ".", "t", "x", "t">>, addBlockedPathPattern |-> <<"/", "V", "a", "u", "l", "t", "/">>,
      addBlockedIP |-> <<"1", "0", ".", "0", ".", "0", ".", "1">>, addBlockedHost |-> <<"E", "x", "a", "m", "p", "l", "e", ".", "c", "o", "m">> ]

\* A call of a guarded entry point can be made.
CanCall == stack = <<>> /\ ioCount < MaxCalls

\* The frame of a call of a guarded entry point: one more call is made, and
\* the hooks and the engines are left alone.
IoFrame ==
    /\ ioCount' = ioCount + 1
    /\ lastCall' = Call("call", <<>>, FALSE)
    /\ UNCHANGED << evalVars, requireVars, primordialVars, netVars, fsVars, instance,
                    callVars, host, levVars, indexVars >>

\* A call of one of the seven fs entry points, through whatever handler is
\* in place.
FsCall(entry, path, cb) ==
    /\ CanCall
    /\ fsSlot[entry] # "undefined"
    /\ LET args == [ path |-> path, cb |-> cb ]
           r == IF fsSlot[entry] = "patched" THEN PatchedFs(entry, args)
                ELSE Forward(entry, args, fsSlot[entry], <<>>)
       IN  /\ io' = <<r>>
           /\ ticks' = IF r.outcome = "queued" THEN Append(ticks, r) ELSE ticks
    /\ UNCHANGED ruleArrays
    /\ IoFrame

\* A call of net.Socket.prototype.connect, dns.lookup or fetch.
NetCall(entry, args) ==
    /\ CanCall
    /\ netSlot[entry] # "undefined"
    /\ io' = << IF netSlot[entry] # "patched" THEN Forward(entry, args, netSlot[entry], <<>>)
                ELSE IF entry = "connect" THEN PatchedConnect(args)
                ELSE IF entry = "lookup" THEN PatchedLookup(args)
                ELSE PatchedFetch(args) >>
    /\ UNCHANGED << ruleArrays, ticks >>
    /\ IoFrame

\* The next turn of the event loop: the first queued callback is called with
\* its error.
Tick ==
    /\ ticks # <<>>
    /\ io' = << [ Head(ticks) EXCEPT !.outcome = "callback later" ] >>
    /\ ticks' = Tail(ticks)
    /\ UNCHANGED << ruleArrays, ioCount, evalVars, requireVars, primordialVars, netVars,
                    fsVars, instance, callVars, host, levVars, indexVars, lastCall >>

\* addBlockedFilename, addBlockedPathPattern, addBlockedIP, addBlockedHost:
\* the value (lower-cased, but for an IP) is pushed onto the array.
AddBlocked(fn) ==
    /\ CanCall
    /\ LET v == AddedValues[fn]
           field == CASE fn = "addBlockedFilename" -> "filenames"
                      [] fn = "addBlockedPathPattern" -> "patterns"
                      [] fn = "addBlockedIP" -> "ips"
                      [] fn = "addBlockedHost" -> "hosts"
           pushed == Push(ruleArrays[field], IF fn = "addBlockedIP" THEN v ELSE ToLowerCase(v))
       IN  /\ ruleArrays' = [ ruleArrays EXCEPT ![field] = pushed.list ]
           /\ io' = << IoCall(fn, [ value |-> v ], fn, <<>>, <<>>,
                              IF pushed.threw = <<>> THEN "result" ELSE "throw",
                              pushed.threw) >>
    /\ UNCHANGED ticks
    /\ IoFrame

InitShield ==
    /\ HooksPristine("original", "original")
    /\ EvalIdle
    /\ instance = <<>>
    /\ CallsIdle
    /\ ShieldIdle
    /\ LevIdle
    /\ IndexIdle
    /\ lastCall = Call("load", <<>>, FALSE)

\* The configurations that set the mode alone.
ModeConfigs ==
    { [ mode |-> <<m>>, allowDangerousBuiltins |-> <<>>, blocklist |-> <<>>,
        allowlist |-> <<>>, logLevel |-> <<>> ] : m \in { "warn", "audit" } }

\* The shields are set up, in any order and any number of times, and then the
\* guarded entry points are called.
SettingUp == ioCount = 0

NextShield ==
    \/ SettingUp /\ activateNetworkShield
    \/ SettingUp /\ deactivateNetworkShield
    \/ SettingUp /\ activateFsShield
    \/ SettingUp /\ deactivateFsShield
    \/ SettingUp /\ \E c \in ModeConfigs : Configure(c)
    \/ \E e \in FsEntryPoints, path \in FsArgs : FsCall(e, path, FALSE)
    \/ \E e \in { "readFile", "open" }, path \in FsArgs : FsCall(e, path, TRUE)
    \/ FsCall("promises.readFile", PathArg("FileHandle", <<>>), FALSE)
    \/ \E a \in ConnectArgs : NetCall("connect", a)
    \/ \E n \in NetHosts, cb \in BOOLEAN :
          NetCall("lookup", [ form |-> "hostname", host |-> <<n>>, cb |-> cb ])
    \/ \E n \in UrlHosts : NetCall("fetch", [ form |-> "url", host |-> <<n>>, cb |-> FALSE ])
    \/ Tick
    \/ \E fn \in DOMAIN AddedValues : AddBlocked(fn)

SpecShield == InitShield /\ [][NextShield]_vars

\* The same with the event loop running: a callback queued with
\* process.nextTick is called once the current operation has completed.
SpecShieldTurns == SpecShield /\ WF_vars(Tick)

-----------------------------------------------------------------------------
(* Callers that keep a reference to an installed handler (const r =        *)
(* Module.prototype.require, const f = fs.readFileSync) and call it later   *)

\* patchedRequire is there to be kept while the hook is installed; the last
\* moment to take it is just before the restoreRequire that removes it.
HasPatchedRequire == isHooked \/ lastCall = Call("restoreRequire", <<>>, TRUE)

\* The same for the seven handlers of the filesystem shield.
HasPatchedFs == fsIsActivated \/ lastCall = Call("deactivateFsShield", <<>>, TRUE)

\* saved.call(module, id), saved being patchedRequire
SavedRequire(id, resolves) ==
    /\ stack = <<>>
    /\ HasPatchedRequire
    /\ LET e == EnteredVia("patchedRequire", id, resolves)
       IN  /\ stack' = <<e.frame>>
           /\ isChecking' = e.checking
           /\ instance' = e.engine
    /\ lastCall' = Call("require", <<id>>, isHooked)
    /\ UNCHANGED << moduleRequire, originalRequire, isHooked, analyzerCallback, hookSeq,
                    evalVars, primordialVars, netVars, fsVars, host, shieldVars, levVars, indexVars >>

\* saved(path[, cb]), saved being one of the seven patched functions
SavedFsCall(entry, path, cb) ==
    /\ CanCall
    /\ HasPatchedFs
    /\ LET r == PatchedFs(entry, [ path |-> path, cb |-> cb ])
       IN  /\ io' = <<r>>
           /\ ticks' = IF r.outcome = "queued" THEN Append(ticks, r) ELSE ticks
    /\ UNCHANGED ruleArrays
    /\ IoFrame

InitSaved ==
    /\ HooksPristine("original", "original")
    /\ EvalIdle
    /\ instance = <<>>
    /\ CallsIdle
    /\ ShieldIdle
    /\ LevIdle
    /\ IndexIdle
    /\ lastCall = Call("load", <<>>, FALSE)

NextSaved ==
    \/ SettingUp /\ hookRequire(<<>>)
    \/ SettingUp /\ restoreRequire
    \/ SettingUp /\ activateFsShield
    \/ SettingUp /\ deactivateFsShield
    \/ SettingUp /\ \E id \in Requests, r \in BOOLEAN : SavedRequire(id, r)
    \/ LoadReturn
    \/ Return
    \/ \E e \in FsEntryPoints, path \in FsArgs : SavedFsCall(e, path, FALSE)
    \/ \E e \in { "readFile", "open" }, path \in FsArgs : SavedFsCall(e, path, TRUE)
    \/ Tick

SpecSaved == InitSaved /\ [][NextSaved]_vars

-----------------------------------------------------------------------------
(* src/unnamed/part_005 (core/primordials): calls of eval and Function     *)

\* The code strings given to eval and Function.
Codes == { "1 + 1", "return 1", "process.exit()", "" }

\* The handlers as they would be if lockedEval returned instead of throwing.
InvokeLenient(handler, how) ==
    IF handler = "FunctionProxy" THEN "SecurityError" ELSE "result"

\* What a handler in globalThis.eval or globalThis.Function does when it is
\* called (how = "call") or constructed (how = "new"): lockedEval throws; the
\* apply and construct traps of FunctionProxy throw; the originals run.
Invoke(handler, how) ==
    CASE handler = "lockedEval" -> "SecurityError"
      [] handler = "FunctionProxy" ->
            IF how \in { "call", "new" } THEN "SecurityError" ELSE "result"
      [] OTHER -> "result"

\* A call through a global: eval(code), Function(code) or new Function(code).
PrimordialCall(entry, how, code) ==
    /\ CanCall
    /\ LET handler == IF entry = "eval" THEN globalEval ELSE globalFunction
           args == [ how |-> how, code |-> code ]
       IN  io' = << IF Invoke(handler, how) = "result"
                    THEN Forward(entry, args, handler, <<>>)
                    ELSE IoCall(entry, args, handler, <<>>, <<>>, "throw",
                                <<Invoke(handler, how)>>) >>
    /\ ioCount' = ioCount + 1
    /\ lastCall' = Call("call", <<entry>>, isLocked)
    /\ UNCHANGED << ruleArrays, ticks, evalVars, requireVars, primordialVars, netVars,
                    fsVars, instance, callVars, host, levVars, indexVars >>

InitPrimordials ==
    /\ HooksPristine("original", "original")
    /\ EvalIdle
    /\ instance = <<>>
    /\ CallsIdle
    /\ ShieldIdle
    /\ LevIdle
    /\ IndexIdle
    /\ lastCall = Call("load", <<>>, FALSE)

NextPrimordials ==
    \/ lockdownPrimordials
    \/ restorePrimordials
    \/ \E code \in Codes : PrimordialCall("eval", "call", code)
    \/ \E how \in { "call", "new" }, code \in Codes : PrimordialCall("Function", how, code)

SpecPrimordials == InitPrimordials /\ [][NextPrimordials]_vars

-----------------------------------------------------------------------------
(* src/unnamed/part_003 (utils/levenshtein): levenshtein, isSimilar        *)

\* The longest first and second argument, and the largest threshold.
MaxShortLen == 2
MaxLongLen == 7
MaxThreshold == 6

\* The characters of the arguments.
Letters == { "a", "b" }

\* The strings of at most n characters.
Strings(n) == UNION { [ 1..k -> Letters ] : k \in 0..n }

\* The empty fast paths as they would be if they returned 0.
EmptyDistanceZero(len) == 0

\* `return bLen` / `return aLen` of the empty fast paths
EmptyDistance(len) == len

\* The inlined minimum of three
Min3(insertion, deletion, substitution) ==
    IF insertion < deletion
    THEN (IF insertion < substitution THEN insertion ELSE substitution)
    ELSE (IF deletion < substitution THEN deletion ELSE substitution)

\* The loop over j of levenshtein, from j on: row is the array (row[j + 1]
\* here is the source's row[j]).  The array has shortLen + 1 entries, so the
\* loop's end `j < shortLen` is read off the array.
RECURSIVE InnerLoop(_, _, _, _, _)
InnerLoop(short, longChar, row, previousDiagonal, j) ==
    IF j >= Len(row) THEN row
    ELSE LET temp == row[j + 1]
             cell == IF longChar = short[j]
                     THEN previousDiagonal
                     ELSE Min3(row[j] + 1, row[j + 1] + 1, previousDiagonal + 1)
         IN  InnerLoop(short, longChar, [ row EXCEPT ![j + 1] = cell ], temp, j + 1)

\* The loop over i of levenshtein, from i on.
RECURSIVE OuterLoop(_, _, _, _)
OuterLoop(short, long, row, i) ==
    IF i > Len(long) THEN row
    ELSE OuterLoop(short, long,
                   InnerLoop(short, long[i], [ row EXCEPT ![1] = i ], row[1], 1),
                   i + 1)

\* `if (longLen - shortLen > 5)`
LengthFastPath(shortLen, longLen) == longLen - shortLen > 5

\* levenshtein(a, b)
levenshtein(a, b) ==
    IF a = b THEN 0
    ELSE IF Len(a) = 0 THEN EmptyDistance(Len(b))
    ELSE IF Len(b) = 0 THEN EmptyDistance(Len(a))
    ELSE LET short == IF Len(a) <= Len(b) THEN a ELSE b
             long == IF Len(a) <= Len(b) THEN b ELSE a
         IN  IF LengthFastPath(Len(short), Len(long))
             THEN Len(long) - Len(short)
             ELSE OuterLoop(short, long, [ j \in 1..(Len(short) + 1) |-> j - 1 ], 1)[Len(short) + 1]

\* `if (lenDiff > threshold)` of isSimilar
LenDiffExceeds(lenDiff, threshold) == lenDiff > threshold

\* isSimilar(a, b, threshold)
isSimilar(a, b, threshold) ==
    IF a = b THEN TRUE
    ELSE LET lenDiff == IF Len(a) >= Len(b) THEN Len(a) - Len(b) ELSE Len(b) - Len(a)
         IN  IF LenDiffExceeds(lenDiff, threshold) THEN FALSE
             ELSE levenshtein(a, b) <= threshold

\* The result of a call.
LevResult(op, x, y, threshold, value) ==
    [ op |-> op, x |-> x, y |-> y, threshold |-> threshold, value |-> value ]

\* levenshtein(x, y) is called with two of a, b and '' (one call is made on
\* each pair of arguments drawn).
Levenshtein(x, y) ==
    /\ levOut = <<>>
    /\ levOut' = <<LevResult("levenshtein", x, y, <<>>, levenshtein(x, y))>>
    /\ UNCHANGED << levIn, typo, indexVars, evalVars, requireVars, primordialVars, netVars, fsVars,
                    instance, callVars, host, shieldVars, lastCall >>

\* isSimilar(x, y, threshold) is called.
IsSimilar(x, y, threshold) ==
    /\ levOut = <<>>
    /\ levOut' = <<LevResult("isSimilar", x, y, <<threshold>>, isSimilar(x, y, threshold))>>
    /\ UNCHANGED << levIn, typo, indexVars, evalVars, requireVars, primordialVars, netVars, fsVars,
                    instance, callVars, host, shieldVars, lastCall >>

InitLev ==
    /\ \E a \in Strings(MaxShortLen), b \in Strings(MaxLongLen) : levIn = [ a |-> a, b |-> b ]
    /\ levOut = <<>>
    /\ typo = <<>>
    /\ IndexIdle
    /\ HooksPristine("original", "original")
    /\ EvalIdle
    /\ instance = <<>>
    /\ CallsIdle
    /\ ShieldIdle
    /\ lastCall = Call("load", <<>>, FALSE)

NextLev ==
    \/ \E x \in { levIn.a, levIn.b, <<>> }, y \in { levIn.a, levIn.b, <<>> } : Levenshtein(x, y)
    \/ \E x \in { levIn.a, levIn.b }, y \in { levIn.a, levIn.b }, t \in 0..MaxThreshold :
          IsSimilar(x, y, t)

SpecLev == InitLev /\ [][NextLev]_vars

-----------------------------------------------------------------------------
(* src/unnamed/part_004 (core/typosquat): checkTyposquat                   *)

\* TOP_100_NPM_PACKAGES, in the order of the source ('yup' is listed twice).
TOP_100_NPM_PACKAGES ==
    << <<"l", "o", "d", "a", "s", "h">>,
       <<"c", "h", "a", "l", "k">>,
       <<"r", "e", "q", "u", "e", "s", "t">>,
       <<"c", "o", "m", "m", "a", "n", "d", "e", "r">>,
       <<"r", "e", "a", "c", "t">>,
       <<"e", "x", "p", "r", "e", "s", "s">>,
       <<"m", "o", "m", "e", "n", "t">>,
       <<"a", "x", "i", "o", "s">>,
       <<"b", "l", "u", "e", "b", "i", "r", "d">>,
       <<"d", "e", "b", "u", "g">>,
       <<"a", "s", "y", "n", "c">>,
       <<"u", "u", "i", "d">>,
       <<"u", "n", "d", "e", "r", "s", "c", "o", "r", "e">>,
       <<"m", "k", "d", "i", "r", "p">>,
       <<"g", "l", "o", "b">>,
       <<"y", "a", "r", "g", "s">>,
       <<"m", "i", "n", "i", "m", "i", "s", "t">>,
       <<"s", "e", "m", "v", "e", "r">>,
       <<"c", "o", "l", "o", "r", "s">>,
       <<"f", "s", "-", "e", "x", "t", "r", "a">>,
       <<"i", "n", "q", "u", "i", "r", "e", "r">>,
       <<"b", "o", "d", "y", "-", "p", "a", "r", "s", "e", "r">>,
       <<"w", "e", "b", "p", "a", "c", "k">>,
       <<"t", "y", "p", "e", "s", "c", "r", "i", "p", "t">>,
       <<"e", "s", "l", "i", "n", "t">>,
       <<"b", "a", "b", "e", "l", "-", "c", "o", "r", "e">>,
       <<"p", "r", "o", "p", "-", "t", "y", "p", "e", "s">>,
       <<"c", "l", "a", "s", "s", "n", "a", "m", "e", "s">>,
       <<"r", "x", "j", "s">>,
       <<"j", "q", "u", "e", "r", "y">>,
       <<"r", "i", "m", "r", "a", "f">>,
       <<"t", "s", "l", "i", "b">>,
       <<"c", "h", "e", "e", "r", "i", "o">>,
       <<"d", "o", "t", "e", "n", "v">>,
       <<"q", "s">>,
       <<"o", "r", "a">>,
       <<"e", "x", "e", "c", "a">>,
       <<"y", "u", "p">>,
       <<"r", "a", "m", "d", "a">>,
       <<"w", "i", "n", "s", "t", "o", "n">>,
       <<"v", "u", "e">>,
       <<"r", "e", "a", "c", "t", "-", "d", "o", "m">>,
       <<"n", "e", "x", "t">>,
       <<"m", "o", "n", "g", "o", "o", "s", "e">>,
       <<"s", "o", "c", "k", "e", "t", ".", "i", "o">>,
       <<"n", "o", "d", "e", "m", "o", "n">>,
       <<"p", "m", "2">>,
       <<"p", "r", "e", "t", "t", "i", "e", "r">>,
       <<"j", "e", "s", "t">>,
       <<"m", "o", "c", "h", "a">>,
       <<"c", "h", "a", "i">>,
       <<"s", "i", "n", "o", "n">>,
       <<"s", "u", "p", "e", "r", "t", "e", "s", "t">>,
       <<"p", "a", "s", "s", "p", "o", "r", "t">>,
       <<"b", "c", "r", "y", "p", "t">>,
       <<"j", "s", "o", "n", "w", "e", "b", "t", "o", "k", "e", "n">>,
       <<"c", "o", "r", "s">>,
       <<"h", "e", "l", "m", "e", "t">>,
       <<"m", "u", "l", "t", "e", "r">>,
       <<"n", "o", "d", "e", "m", "a", "i", "l", "e", "r">>,
       <<"l", "o", "d", "a", "s", "h", "-", "e", "s">>,
       <<"d", "a", "t", "e", "-", "f", "n", "s">>,
       <<"d", "a", "y", "j", "s">>,
       <<"i", "m", "m", "u", "t", "a", "b", "l", "e">>,
       <<"r", "e", "d", "u", "x">>,
       <<"m", "o", "b", "x">>,
       <<"f", "o", "r", "m", "i", "k">>,
       <<"y", "u", "p">>,
       <<"z", "o", "d">>,
       <<"a", "j", "v">>,
       <<"n", "a", "n", "o", "i", "d">>,
       <<"s", "h", "o", "r", "t", "i", "d">>,
       <<"c", "r", "y", "p", "t", "o", "-", "j", "s">>,
       <<"a", "r", "g", "o", "n", "2">>,
       <<"b", "c", "r", "y", "p", "t", "j", "s">>,
       <<"c", "o", "o", "k", "i", "e", "-", "p", "a", "r", "s", "e", "r">>,
       <<"e", "x", "p", "r", "e", "s", "s", "-", "s", "e", "s", "s", "i", "o", "n">>,
       <<"m", "o", "r", "g", "a", "n">>,
       <<"c", "o", "m", "p", "r", "e", "s", "s", "i", "o", "n">>,
       <<"s", "e", "r", "v", "e", "-", "s", "t", "a", "t", "i", "c">>,
       <<"e", "s", "b", "u", "i", "l", "d">>,
       <<"r", "o", "l", "l", "u", "p">>,
       <<"v", "i", "t", "e">>,
       <<"p", "a", "r", "c", "e", "l">>,
       <<"g", "u", "l", "p">>,
       <<"g", "r", "u", "n", "t">>,
       <<"n", "p", "m">>,
       <<"y", "a", "r", "n">>,
       <<"p", "n", "p", "m">>,
       <<"l", "e", "r", "n", "a">>,
       <<"n", "x">>,
       <<"h", "u", "s", "k", "y">>,
       <<"l", "i", "n", "t", "-", "s", "t", "a", "g", "e", "d">>,
       <<"c", "o", "m", "m", "i", "t", "l", "i", "n", "t">>,
       <<"c", "y", "p", "r", "e", "s", "s">>,
       <<"p", "l", "a", "y", "w", "r", "i", "g", "h", "t">>,
       <<"p", "u", "p", "p", "e", "t", "e", "e", "r">>,
       <<"e", "n", "z", "y", "m", "e">> >>

\* TOP_100_SET
TOP_100_SET == { TOP_100_NPM_PACKAGES[i] : i \in 1..Len(TOP_100_NPM_PACKAGES) }

\* TYPOSQUAT_THRESHOLD
TYPOSQUAT_THRESHOLD == 3

\* The bounds of the name-length fast path: `packageName.length < 2 ||
\* packageName.length > 50`
MIN_NAME_LENGTH == 2
MAX_NAME_LENGTH == 50

\* Math.abs
Abs(n) == IF n < 0 THEN 0 - n ELSE n

\* The name-length fast path as it would be if it were left out.
NameLengthSkipsNever(packageName) == FALSE

\* `if (packageName.length < 2 || packageName.length > 50)`
NameLengthSkips(packageName) ==
    Len(packageName) < MIN_NAME_LENGTH \/ Len(packageName) > MAX_NAME_LENGTH

\* `Math.abs(packageName.length - popularPkg.length) > TYPOSQUAT_THRESHOLD`
LengthTooFar(packageName, popularPkg) ==
    Abs(Len(packageName) - Len(popularPkg)) > TYPOSQUAT_THRESHOLD

\* The body of the loop over TOP_100_NPM_PACKAGES for one entry: TRUE when
\* the entry is pushed onto similarPackages.
Pushed(packageName, popularPkg) ==
    /\ ~LengthTooFar(packageName, popularPkg)
    /\ LET distance == levenshtein(ToLowerCase(packageName), ToLowerCase(popularPkg))
       IN  distance > 0 /\ distance < TYPOSQUAT_THRESHOLD

\* The loop over TOP_100_NPM_PACKAGES: the entries pushed onto
\* similarPackages, in corpus order.
CorpusLoop(packageName) ==
    LET hits == { i \in 1..Len(TOP_100_NPM_PACKAGES) :
                    Pushed(packageName, TOP_100_NPM_PACKAGES[i]) }
        nth(k) == CHOOSE i \in hits : Cardinality({ j \in hits : j < i }) = k - 1
        entry(i) == [ name |-> TOP_100_NPM_PACKAGES[i],
                      distance |-> levenshtein(ToLowerCase(packageName),
                                               ToLowerCase(TOP_100_NPM_PACKAGES[i])) ]
        found == [ k \in 1..Cardinality(hits) |-> entry(nth(k)) ]
    IN  SubSeq(found, 1, Cardinality(hits))

\* The sort as it would be if it were left out.
SortByDistanceNone(list) == list

\* One step of the sort: x is put behind every entry whose distance is not
\* larger (Array.prototype.sort is stable).
InsertByDistance(sorted, x) ==
    LET before == { i \in 1..Len(sorted) : sorted[i].distance <= x.distance }
        k == Cardinality(before)
    IN  SubSeq(sorted, 1, k) \o <<x>> \o SubSeq(sorted, k + 1, Len(sorted))

\* The first n entries of the list, sorted.
RECURSIVE SortPrefix(_, _)
SortPrefix(list, n) ==
    IF n = 0 THEN <<>> ELSE InsertByDistance(SortPrefix(list, n - 1), list[n])

\* similarPackages.sort((a, b) => a.distance - b.distance)
SortByDistance(list) == SortPrefix(list, Len(list))

\* A TyposquatResult; warning is <<>> when absent, else the three values
\* spliced into the warning text.
TyposquatResult(isSuspicious, packageName, similarPackages, warning) ==
    [ isSuspicious |-> isSuspicious, packageName |-> packageName,
      similarPackages |-> similarPackages, warning |-> warning ]

\* checkTyposquat(packageName)
checkTyposquat(packageName) ==
    IF packageName \in TOP_100_SET
    THEN TyposquatResult(FALSE, packageName, <<>>, <<>>)
    ELSE IF NameLengthSkips(packageName)
    THEN TyposquatResult(FALSE, packageName, <<>>, <<>>)
    ELSE LET similarPackages == SortByDistance(CorpusLoop(packageName))
         IN  IF Len(similarPackages) > 0
             THEN LET topMatch == similarPackages[1]
                  IN  TyposquatResult(TRUE, packageName, similarPackages,
                         << [ packageName |-> packageName, name |-> topMatch.name,
                              distance |-> topMatch.distance ] >>)
             ELSE TyposquatResult(FALSE, packageName, <<>>, <<>>)

\* The longest generated candidate name.
MaxNameLen == 3

\* The characters of the generated candidate names.
NameLetters == { "n", "p", "m", "q", "N" }

\* A name of n characters 'x'.
Repeat(n) == [ i \in 1..n |-> "x" ]

\* The candidate names: every name of at most MaxNameLen letters, the names of
\* the typosquat tests, a popular name in another letter case, a popular name,
\* and a name longer than the fast path admits.
Names ==
    UNION { [ 1..k -> NameLetters ] : k \in 0..MaxNameLen }
    \cup { <<"l", "o", "d", "a", "s">>, <<"r", "e", "q", "e", "s", "t">>,
           <<"a", "x", "o", "i", "s">>, <<"L", "o", "d", "a", "s", "h">>,
           <<"l", "o", "d", "a", "s", "h">>, Repeat(MAX_NAME_LENGTH + 1) }

\* checkTyposquat(packageName) is called (one call is made in each run).
CheckTyposquat(packageName) ==
    /\ typo = <<>>
    /\ typo' = <<checkTyposquat(packageName)>>
    /\ UNCHANGED << levIn, levOut, indexVars, evalVars, requireVars, primordialVars, netVars, fsVars,
                    instance, callVars, host, shieldVars, lastCall >>

InitTypo ==
    /\ LevIdle
    /\ IndexIdle
    /\ HooksPristine("original", "original")
    /\ EvalIdle
    /\ instance = <<>>
    /\ CallsIdle
    /\ ShieldIdle
    /\ lastCall = Call("load", <<>>, FALSE)

NextTypo == \E packageName \in Names : CheckTyposquat(packageName)

SpecTypo == InitTypo /\ [][NextTypo]_vars

-----------------------------------------------------------------------------
(* Claims about the rule engine (SpecEval).                                *)

\* The name the package rules are matched against for a specifier: the root
\* package name, or for a built-in its name without the node: prefix.
RuleSubject(moduleId) ==
    IF isBuiltin(moduleId)
    THEN IF StartsWith(moduleId, NodePrefix)
         THEN SubSeq(moduleId, 6, Len(moduleId)) ELSE moduleId
    ELSE extractPackageName(moduleId)

\* Some rule of the list matches the name.
SomeRuleMatches(name, rules) ==
    \E i \in 1..Len(rules) : matchesPattern(name, rules[i].name)

\* The index of the first rule of the list, in list order, matching the name.
FirstMatching(name, rules) ==
    CHOOSE i \in 1..Len(rules) :
        /\ matchesPattern(name, rules[i].name)
        /\ \A j \in 1..(i - 1) : ~matchesPattern(name, rules[j].name)

\* The package rules are consulted for the specifier: it is neither built-in
\* nor relative, or it is a non-restricted built-in while builtins.allow is false.
RulesConsulted(moduleId) ==
    IF isBuiltin(moduleId)
    THEN /\ ~policy.builtins.allow
         /\ \A i \in 1..Len(policy.builtins.restricted) :
                policy.builtins.restricted[i] # RuleSubject(moduleId)
    ELSE ~isRelativeImport(moduleId)

\* C1: whenever the package rules are consulted and both a blocklist rule and
\* an allowlist rule match the root name, evaluate returns block.
C1_BlockOutranksAllow ==
    decision # <<>> =>
        LET m == evalModuleId[1]
        IN  ( /\ RulesConsulted(m)
              /\ SomeRuleMatches(RuleSubject(m), policy.packages.block)
              /\ SomeRuleMatches(RuleSubject(m), policy.packages.allow) )
            => decision[1].action = "block"

\* The decision the claim C2 describes, for one deciding list: the action,
\* the first matching rule of the list as matchedRule, and that rule's reason
\* when it has a (non-empty) one.
DecidedBy(d, action, name, rules) ==
    LET r == rules[FirstMatching(name, rules)]
    IN  /\ d.action = action
        /\ d.matchedRule = <<r>>
        /\ (r.reason # <<>> /\ r.reason[1] # "") =>
               d.reason = [ text |-> r.reason[1], arg |-> <<>> ]

\* C2: for a specifier that is neither built-in nor relative, the decision is
\* made on the root package name by first match in the order blocklist,
\* allowlist, warnlist, else analyze; matchedRule is the first matching rule of
\* the deciding list and the reason is that rule's reason when it has one.
C2_FirstMatchOrder ==
    decision # <<>> =>
        LET m == evalModuleId[1]
            d == decision[1]
            root == extractPackageName(m)
            pk == policy.packages
        IN  (~isBuiltin(m) /\ ~isRelativeImport(m)) =>
              IF SomeRuleMatches(root, pk.block) THEN DecidedBy(d, "block", root, pk.block)
              ELSE IF SomeRuleMatches(root, pk.allow) THEN DecidedBy(d, "allow", root, pk.allow)
              ELSE IF SomeRuleMatches(root, pk.warn) THEN DecidedBy(d, "warn", root, pk.warn)
              ELSE d.action = "analyze" /\ d.matchedRule = <<>>

\* C2's case: a subpath specifier decided by a list in which two different
\* rules match its root name.
C2_Witness ==
    /\ decision # <<>>
    /\ evalModuleId[1] = <<"a", "b", "/", "x">>
    /\ Len(policy.packages.block) = 2
    /\ policy.packages.block[1] # policy.packages.block[2]
    /\ \A i \in 1..2 : matchesPattern(<<"a", "b">>, policy.packages.block[i].name)
    /\ policy.packages.block[1].reason = <<"R2">>
    /\ decision[1].action = "block"

-----------------------------------------------------------------------------
(* Claims about installing and uninstalling the four hooks (SpecHooks).    *)

\* The handler the host had in an entry point before anything was installed.
PristineNet(e) == IF e = "fetch" THEN host.fetch ELSE "original"
PristineFs(e) == IF e = "promises.opendir" THEN host.opendir ELSE "original"

\* reqguard's own wrappers
Wrappers == { "patchedRequire", "lockedEval", "FunctionProxy", "patched" }

\* No saved original is one of reqguard's own wrappers, and while a hook is
\* not installed its entry points hold the host's handlers.
C9_OriginalsPristine ==
    /\ originalRequire # <<>> => originalRequire[1] \notin Wrappers
    /\ originalEval # <<>> => originalEval[1] \notin Wrappers
    /\ originalFunction # <<>> => originalFunction[1] \notin Wrappers
    /\ \A e \in NetEntryPoints : netOriginal[e] # <<>> => netOriginal[e][1] \notin Wrappers
    /\ \A e \in FsEntryPoints : fsOriginal[e] # <<>> => fsOriginal[e][1] \notin Wrappers
    /\ ~isHooked => moduleRequire = "original"
    /\ ~isLocked => globalEval = "original" /\ globalFunction = "original"
    /\ ~netIsActivated => \A e \in NetEntryPoints : netSlot[e] = PristineNet(e)
    /\ ~fsIsActivated => \A e \in FsEntryPoints : fsSlot[e] = PristineFs(e)

\* An install called while the hook is installed leaves the entry points, the
\* saved originals and the flag as they were; hookRequire then sets the
\* analyzer to the one passed and leaves it alone when none is passed.
C9_SecondInstallStep ==
    /\ (lastCall'.op = "hookRequire" /\ isHooked) =>
          /\ UNCHANGED << moduleRequire, originalRequire, isHooked, isChecking >>
          /\ analyzerCallback' =
                IF lastCall'.arg = <<>> THEN analyzerCallback ELSE lastCall'.arg
          /\ UNCHANGED << primordialVars, netVars, fsVars >>
    /\ (lastCall'.op = "lockdownPrimordials" /\ isLocked) =>
          UNCHANGED << requireVars, primordialVars, netVars, fsVars >>
    /\ (lastCall'.op = "activateNetworkShield" /\ netIsActivated) =>
          UNCHANGED << requireVars, primordialVars, netVars, fsVars >>
    /\ (lastCall'.op = "activateFsShield" /\ fsIsActivated) =>
          UNCHANGED << requireVars, primordialVars, netVars, fsVars >>

\* C9: for each of the four hooks an install while installed neither wraps
\* again nor re-captures the original, the saved original is never one of
\* reqguard's wrappers, an uninstalled hook has the host's handlers back, and
\* a second hookRequire changes only the analyzer, and only when one is passed.
C9_InstallIdempotent == []C9_OriginalsPristine /\ [][C9_SecondInstallStep]_vars

\* C9's case: hookRequire(a2) was called while the hook was installed.
C9_Witness ==
    /\ lastCall = Call("hookRequire", <<"a2">>, TRUE)
    /\ analyzerCallback = <<"a2">>
    /\ isLocked /\ netIsActivated /\ fsIsActivated

\* The uninstall calls
Uninstalls ==
    { "restoreRequire", "restorePrimordials", "deactivateNetworkShield",
      "deactivateFsShield" }

\* The hook a call addresses is installed.
InstalledFor(op) ==
    CASE op = "restoreRequire" -> isHooked
      [] op = "restorePrimordials" -> isLocked
      [] op = "deactivateNetworkShield" -> netIsActivated
      [] op = "deactivateFsShield" -> fsIsActivated
      [] OTHER -> FALSE

\* C10: an uninstall called while its hook is not installed changes nothing:
\* every entry point, installed flag, saved original and the analyzer are left
\* as they were (no path of the four functions raises an error).
C10_UninstallNoop ==
    [][ (lastCall'.op \in Uninstalls /\ ~InstalledFor(lastCall'.op)) =>
            UNCHANGED << requireVars, primordialVars, netVars, fsVars >> ]_vars

\* C10's case: restoreRequire was called while the require hook was not
\* installed and the other hooks were.
C10_Witness ==
    /\ lastCall = Call("restoreRequire", <<>>, FALSE)
    /\ analyzerCallback # <<>>
    /\ isLocked /\ netIsActivated /\ fsIsActivated

-----------------------------------------------------------------------------
(* Claims about the hooked require (SpecRequire).                          *)

\* The require calls in progress or just finished.
Frames == { stack[i] : i \in 1..Len(stack) }

\* The call went through reqguard's wrapper.
Hooked(f) == f.via = "patchedRequire"

\* The policy engine blocked the module of the call (handleBlock was reached).
BlockedBy(f, modes) ==
    Hooked(f) /\ f.chk # <<>> /\ f.chk[1].blocked /\ f.mode[1] \in modes

\* The original require was called with the argument of the call and what it
\* returned or threw is what the caller gets.
LoadedThrough(f) ==
    /\ f.pc \in { "loading", "done" }
    /\ f.origArg = <<f.id>>
    /\ f.pc = "done" => f.loaded # <<>> /\ f.result = f.loaded

\* C3: when the mode is warn or audit and the policy engine blocks a required
\* module, the hooked require does not throw: the original require is invoked
\* and its result is returned.
C3_WarnAuditProceeds ==
    \A f \in Frames : BlockedBy(f, { "warn", "audit" }) => LoadedThrough(f)

\* C4: in enforce mode, when the policy engine blocks a required module, the
\* hooked require throws a SecurityError and neither the analyzer nor the
\* original require is invoked for that call.
C4_EnforceBlockNeverLoads ==
    \A f \in Frames :
        BlockedBy(f, { "enforce" }) =>
            /\ f.pc = "done"
            /\ f.result = <<"SecurityError">>
            /\ f.origArg = <<>> /\ f.loaded = <<>> /\ f.ran = <<>>

\* A call blocked in enforce mode has thrown, for a built-in with its node:
\* prefix.
C4_Witness ==
    \E f \in Frames :
        /\ BlockedBy(f, { "enforce" }) /\ StartsWith(f.id, NodePrefix)
        /\ f.result = <<"SecurityError">>

\* C5: when the analyzer throws an Error whose message begins with
\* '[reqguard] Blocked', the hooked require throws that error to its caller
\* and the module is not loaded.
C5_AnalyzerBlockPropagates ==
    \A f \in Frames :
        (Hooked(f) /\ f.ran # <<>> /\ f.threw = <<"ReqguardError">>) =>
            /\ f.pc = "done"
            /\ f.result = <<"ReqguardError">>
            /\ f.origArg = <<>> /\ f.loaded = <<>>

C7_NoReentry ==
    /\ \A i \in 1..Len(stack) : \A j \in (i + 1)..Len(stack) :
          (stack[i].pc = "analyzer" /\ Hooked(stack[j])) =>
              /\ stack[j].guarded
              /\ stack[j].chk = <<>> /\ stack[j].ran = <<>>
              /\ LoadedThrough(stack[j])
    /\ Cardinality({ i \in 1..Len(stack) : stack[i].pc = "analyzer" }) <= 1
    /\ isChecking <=> \E f \in Frames : f.pc = "analyzer"

\* The analyzer of a call required a non-relative module, which was loaded.
C7_Witness ==
    /\ Len(stack) >= 2
    /\ stack[1].pc = "analyzer"
    /\ ~StartsWith(stack[2].id, DotSlash)
    /\ stack[2].guarded /\ stack[2].pc = "done" /\ stack[2].result = <<"exports">>

\* C8: after hookRequire(a1), restoreRequire(), hookRequire(a2),
\* restoreRequire(), Module.prototype.require is the handler that was there
\* before the first call, isRequireHooked() is false, no analyzer and no
\* saved original is retained, and a later require runs that handler and no
\* analyzer.
C8_HookRestoreTwice ==
    hookSeq.pos = 4 =>
        /\ moduleRequire = hookSeq.base
        /\ ~isHooked
        /\ analyzerCallback = <<>>
        /\ originalRequire = <<>>
        /\ \A f \in Frames : f.via = hookSeq.base /\ f.ran = <<>> /\ f.chk = <<>>

\* The sequence was made with two different analyzers and a module was
\* required afterwards.
C8_Witness ==
    /\ hookSeq.pos = 4 /\ hookSeq.seen = Analyzers
    /\ stack # <<>> /\ stack[1].pc = "done" /\ stack[1].result = <<"exports">>

-----------------------------------------------------------------------------
(* Claims about levenshtein and isSimilar (SpecLev).                       *)

\* The smallest of a non-empty set of numbers.
Least(S) == CHOOSE m \in S : \A n \in S : m <= n

\* One row of the edit-distance table of a and b: acc holds the entries for
\* the prefixes of a shorter than j, prev the row of the previous prefix of b,
\* bc the character of b the row is for.
RECURSIVE EditRow(_, _, _, _, _)
EditRow(a, bc, prev, acc, j) ==
    IF j > Len(a) THEN acc
    ELSE EditRow(a, bc, prev,
                 Append(acc, Least({ prev[j + 1] + 1, acc[j] + 1,
                                     prev[j] + (IF a[j] = bc THEN 0 ELSE 1) })),
                 j + 1)

\* The rows of the table up to the prefix of b of length i.
RECURSIVE EditRows(_, _, _)
EditRows(a, b, i) ==
    IF i = 0 THEN [ j \in 1..(Len(a) + 1) |-> j - 1 ]
    ELSE EditRow(a, b[i], EditRows(a, b, i - 1), <<i>>, 1)

\* The reference edit distance: the least number of single-character
\* insertions, deletions and substitutions that turn a into b.
EditDistance(a, b) == EditRows(a, b, Len(b))[Len(a) + 1]

\* The last call was op.
Returned(op) == levOut # <<>> /\ levOut[1].op = op

\* C18: levenshtein(a, b) is the edit distance of a and b, whatever their
\* lengths.
C18_LevenshteinIsEditDistance ==
    Returned("levenshtein") => levOut[1].value = EditDistance(levOut[1].x, levOut[1].y)

\* C19: levenshtein(a, b) = levenshtein(b, a), levenshtein(a, a) = 0, and
\* levenshtein('', s) = levenshtein(s, '') = s.length.
C19_LevenshteinLaws ==
    Returned("levenshtein") =>
        LET x == levOut[1].x
            y == levOut[1].y
            value == levOut[1].value
        IN  /\ value = levenshtein(y, x)
            /\ x = y => value = 0
            /\ x = <<>> => value = Len(y)
            /\ y = <<>> => value = Len(x)

\* levenshtein was called with the longer string first, on two strings that
\* share no character.
C19_Witness ==
    /\ Returned("levenshtein")
    /\ Len(levOut[1].x) = 3 /\ Len(levOut[1].y) = 2
    /\ levOut[1].value = 3

\* C20: isSimilar(a, b, t) is true exactly when the edit distance of a and b
\* is at most t.
C20_IsSimilarIffWithinThreshold ==
    Returned("isSimilar") =>
        (levOut[1].value <=> EditDistance(levOut[1].x, levOut[1].y) <= levOut[1].threshold[1])

-----------------------------------------------------------------------------
(* Claims about the shields (SpecShield).                                  *)

\* The last call was a call of an entry point of `entries` that went through
\* reqguard's wrapper.
Guarded(entries) == io # <<>> /\ io[1].entry \in entries /\ io[1].via = "patched"

\* The call was refused: the original was not called and the caller gets a
\* SecurityError, thrown, as a rejection, or through its callback.
Refused(c) ==
    /\ c.orig = <<>>
    /\ c.error = <<"SecurityError">>
    /\ c.outcome \in { "throw", "reject", "callback", "queued", "callback later" }

\* The call went to the original with its arguments, and what the original
\* did is what the caller gets.
Forwarded(c) == c.orig = <<c.args>> /\ c.outcome = "result" /\ c.error = <<>>

\* C11: when the configured mode is warn or audit, a file or network call
\* that a shield would block is forwarded to the original entry point and no
\* security violation is raised.
C11_ShieldsRecoverOutsideEnforce ==
    (Guarded(FsEntryPoints \cup NetEntryPoints) /\ io[1].mode \in { <<"warn">>, <<"audit">> })
        => Forwarded(io[1])

\* The last non-empty segment of a path.
LastComponent(n) ==
    LET segments == SelectSeq(Split(n), LAMBDA seg : seg # <<>>)
    IN  IF segments = <<>> THEN <<>> ELSE segments[Len(segments)]

\* The path-like argument is one the fs shield is to block: its normalised
\* form (backslashes turned into slashes, lower-cased) has a blocked final
\* component, contains a blocked pattern, or ends with a blocked suffix.
ShouldBlockPath(arg) ==
    LET n == ToLowerCase(ReplaceBackslashes(arg.text))
    IN  \/ InList(BLOCKED_FILENAMES, LastComponent(n))
        \/ \E i \in 1..Len(BLOCKED_PATH_PATTERNS) : IncludesString(n, BLOCKED_PATH_PATTERNS[i])
        \/ \E i \in 1..Len(BLOCKED_SUFFIXES) : EndsWith(n, BLOCKED_SUFFIXES[i])

PathLike(arg) == arg.kind \in { "string", "Buffer", "URL" }

\* C12: while the fs shield is active, each of the seven entry points refuses
\* a path-like argument that is to be blocked, without calling the original,
\* and forwards every other path with the arguments unchanged; an error
\* queued for a callback is a SecurityError.
C12_FsShieldUniform ==
    /\ (Guarded(FsEntryPoints) /\ PathLike(io[1].args.path)) =>
          IF ShouldBlockPath(io[1].args.path) THEN Refused(io[1]) ELSE Forwarded(io[1])
    /\ \A i \in 1..Len(ticks) : Refused(ticks[i])

\* fs.open was called with a callback on a path written with a backslash, and
\* the callback has been called with the error in a later turn.
C12_Witness ==
    /\ Guarded({ "open" }) /\ io[1].args.cb
    /\ Includes(io[1].args.path.text, "\\")
    /\ io[1].outcome = "callback later" /\ io[1].error = <<"SecurityError">>

\* C13: a call whose first argument is a file descriptor number, or for
\* fs.promises.readFile a FileHandle, is forwarded to the original.
C13_OpenHandlesForwarded ==
    (/\ Guarded(FsEntryPoints)
     /\ \/ io[1].args.path.kind = "fd"
        \/ io[1].entry = "promises.readFile" /\ io[1].args.path.kind = "FileHandle")
        => Forwarded(io[1])

\* fs.promises.readFile was called with a FileHandle while the shield was
\* active.
C13_Witness ==
    /\ Guarded({ "promises.readFile" }) /\ io[1].args.path.kind = "FileHandle"
    /\ fsIsActivated /\ Forwarded(io[1])

\* The host is one the network shield is to block.
ShouldBlockHost(h) ==
    \/ InList(BLOCKED_IPS, h)
    \/ InList(BLOCKED_HOSTS, ToLowerCase(h))
    \/ StartsWith(h, <<"1", "6", "9", ".", "2", "5", "4", ".">>)
    \/ StartsWith(ToLowerCase(h), <<":", ":", "f", "f", "f", "f", ":", "1", "6", "9", ".", "2", "5", "4", ".">>)
    \/ StartsWith(ToLowerCase(h), <<"f", "e", "8", "0", ":", ":">>)

\* C14: dns.lookup with a callback and a blocked hostname returns without
\* throwing and without having called the callback, which gets the error in
\* a later turn; the original lookup is not called.
C14_LookupErrorDeferred ==
    (Guarded({ "lookup" }) /\ io[1].args.cb /\ ShouldBlockHost(io[1].args.host[1]))
        => /\ io[1].outcome \in { "queued", "callback later" }
           /\ io[1].orig = <<>>

\* C15: a connect in (port, host) or options form and a fetch of a URL are
\* refused, before the original is called, when the target host is to be
\* blocked, and forwarded with the arguments unchanged otherwise.
C15_NetShieldChecksFirst ==
    (/\ Guarded({ "connect", "fetch" })
     /\ io[1].args.form \in { "positional", "options", "url" }
     /\ io[1].args.host # <<>>)
        => IF ShouldBlockHost(io[1].args.host[1]) THEN Refused(io[1]) ELSE Forwarded(io[1])

\* C16: each add function completes without error, and afterwards the
\* predicate blocks the value that was added.
C16_RulesCanBeAdded ==
    (io # <<>> /\ io[1].entry \in DOMAIN AddedValues) =>
        /\ io[1].error = <<>>
        /\ IF io[1].entry \in { "addBlockedFilename", "addBlockedPathPattern" }
           THEN isBlockedPath(PathArg("string", io[1].args.value)) = "true"
           ELSE isBlockedAddress(io[1].args.value)

-----------------------------------------------------------------------------
(* Claims about the primordials (SpecPrimordials).                         *)

\* While locked, the saved originals are the host's eval and Function and the
\* globals are the stand-ins; a call through a global made while locked throws
\* a SecurityError and does not reach the original.
C17_LockedCallsThrow ==
    /\ isLocked => /\ originalEval = <<"original">> /\ originalFunction = <<"original">>
                   /\ globalEval = "lockedEval" /\ globalFunction = "FunctionProxy"
    /\ (lastCall.op = "call" /\ lastCall.installed) =>
          /\ io[1].outcome = "throw" /\ io[1].error = <<"SecurityError">>
          /\ io[1].orig = <<>>

\* A restorePrimordials() made while locked writes back the eval and Function
\* saved at lockdown.
C17_RestoreStep ==
    (lastCall'.op = "restorePrimordials" /\ isLocked) =>
        /\ globalEval' = originalEval[1] /\ globalFunction' = originalFunction[1]
        /\ globalEval' = "original" /\ globalFunction' = "original"
        /\ ~isLocked'

\* C17: between lockdownPrimordials() and the next restorePrimordials() every
\* call of the global eval and every call or construction through the global
\* Function raises a security violation; after restorePrimordials() the
\* globals are the eval and Function captured at lockdown.
C17_PrimordialsLocked == []C17_LockedCallsThrow /\ [][C17_RestoreStep]_vars

\* Function was constructed with new while locked, and threw.
C17_Witness ==
    /\ lastCall.op = "call" /\ lastCall.installed
    /\ io[1].entry = "Function" /\ io[1].args.how = "new"
    /\ io[1].error = <<"SecurityError">>

-----------------------------------------------------------------------------
(* Claims about checkTyposquat (SpecTypo).                                 *)

\* TRUE when at most k single-character insertions, deletions and
\* substitutions turn a into b.
RECURSIVE WithinEdits(_, _, _)
WithinEdits(a, b, k) ==
    IF a = b THEN TRUE
    ELSE IF k = 0 THEN FALSE
    ELSE IF a = <<>> THEN Len(b) <= k
    ELSE IF b = <<>> THEN Len(a) <= k
    ELSE IF a[1] = b[1] THEN WithinEdits(Tail(a), Tail(b), k)
    ELSE \/ WithinEdits(Tail(a), b, k - 1)
         \/ WithinEdits(a, Tail(b), k - 1)
         \/ WithinEdits(Tail(a), Tail(b), k - 1)

\* The corpus entries within the threshold of a candidate name: the entries e
\* with 0 < distance(lowercase(candidate), lowercase(e)) < 3, the distance
\* being the least number of edits.
CloseEntries(candidate) ==
    { e \in TOP_100_SET :
        /\ ToLowerCase(candidate) # ToLowerCase(e)
        /\ WithinEdits(ToLowerCase(candidate), ToLowerCase(e), 2) }

\* The result records exactly the close entries, each with its distance; it is
\* suspicious exactly when there is one, and carries a warning exactly then.
RecordsCloseEntries(r) ==
    /\ { r.similarPackages[i].name : i \in 1..Len(r.similarPackages) }
          = CloseEntries(r.packageName)
    /\ \A i \in 1..Len(r.similarPackages) :
          LET m == r.similarPackages[i]
              c == ToLowerCase(r.packageName)
              e == ToLowerCase(m.name)
          IN  /\ m.distance \in { 1, 2 }
              /\ WithinEdits(c, e, m.distance)
              /\ ~WithinEdits(c, e, m.distance - 1)
    /\ r.isSuspicious <=> CloseEntries(r.packageName) # {}
    /\ r.isSuspicious <=> r.warning # <<>>

\* C21 as stated: for every candidate name that is not a corpus entry,
\* checkTyposquat records exactly the corpus entries at a distance of 1 or 2
\* from it, and is suspicious (with a warning) exactly when there is one.
C21_Original ==
    \A i \in 1..Len(typo) :
        typo[i].packageName \notin TOP_100_SET => RecordsCloseEntries(typo[i])

\* C21: for every candidate name of 2 to 50 characters that is not a corpus
\* entry, checkTyposquat records exactly the corpus entries at a distance of 1
\* or 2 from it, and is suspicious (with a warning) exactly when there is one;
\* for a shorter or longer name, and for a corpus entry, the result is not
\* suspicious and records nothing.
C21_MatchesWithinThreshold ==
    \A i \in 1..Len(typo) :
        LET r == typo[i]
        IN  IF /\ r.packageName \notin TOP_100_SET
               /\ Len(r.packageName) >= 2
               /\ Len(r.packageName) <= 50
            THEN RecordsCloseEntries(r)
            ELSE ~r.isSuspicious /\ r.similarPackages = <<>> /\ r.warning = <<>>

\* A name of two characters or more was checked and has close entries.
C21_Witness ==
    /\ typo # <<>>
    /\ Len(typo[1].packageName) >= 2
    /\ typo[1].packageName \notin TOP_100_SET
    /\ CloseEntries(typo[1].packageName) # {}
    /\ typo[1].isSuspicious

\* C22: the matches are in order of non-decreasing distance, and the warning
\* of a suspicious result names the first match, whose distance is the least
\* of all matches.
C22_SortedClosestFirst ==
    \A k \in 1..Len(typo) :
        LET r == typo[k]
            n == Len(r.similarPackages)
        IN  /\ \A i \in 1..n, j \in 1..n :
                  i < j => r.similarPackages[i].distance <= r.similarPackages[j].distance
            /\ r.isSuspicious =>
                  /\ n > 0
                  /\ r.warning # <<>>
                  /\ r.warning[1].name = r.similarPackages[1].name
                  /\ r.warning[1].distance = r.similarPackages[1].distance
                  /\ \A i \in 1..n :
                        r.warning[1].distance <= r.similarPackages[i].distance

\* A suspicious result whose matches the corpus lists in another order than
\* the order of their distances.
C22_Witness ==
    /\ typo # <<>>
    /\ typo[1].isSuspicious
    /\ LET found == CorpusLoop(typo[1].packageName)
       IN  \E i \in 1..Len(found), j \in 1..Len(found) :
              i < j /\ found[i].distance > found[j].distance

-----------------------------------------------------------------------------
(* Claims about built-ins, relative specifiers, patterns and root names    *)
(* (SpecEval, SpecMatch).                                                  *)

\* The names listed in builtins.restricted.
RestrictedNames == { policy.builtins.restricted[i] : i \in 1..Len(policy.builtins.restricted) }

\* C23: a built-in named in builtins.restricted is blocked, with the
\* 'restricted' reason, for its bare and its node:-prefixed specifier, whether
\* builtins.allow is true or false and whatever the package rules contain.
C23_RestrictedAlwaysBlocked ==
    decision # <<>> =>
        LET m == evalModuleId[1]
        IN  (isBuiltin(m) /\ RuleSubject(m) \in RestrictedNames) =>
              /\ decision[1].action = "block"
              /\ decision[1].reason =
                    [ text |-> "Built-in is restricted by policy", arg |-> RuleSubject(m) ]

\* A restricted built-in was asked for by its node: specifier while built-ins
\* are disabled and an allowlist rule matches its name.
C23_Witness ==
    /\ decision # <<>>
    /\ evalModuleId[1] = NodePrefix \o <<"f", "s">>
    /\ <<"f", "s">> \in RestrictedNames
    /\ ~policy.builtins.allow
    /\ SomeRuleMatches(<<"f", "s">>, policy.packages.allow)
    /\ decision[1].action = "block"

C25_RelativeNeverRuled ==
    decision # <<>> =>
        LET m == evalModuleId[1]
            d == decision[1]
        IN  (StartsWith(m, <<".", "/">>) \/ StartsWith(m, <<".", ".", "/">>)) =>
              /\ d.matchedRule = <<>>
              /\ IF policy.relativeImports.analyze
                 THEN d.action = "analyze"
                 ELSE /\ d.action = "allow"
                      /\ d.reason = [ text |-> "Relative import (analysis disabled)",
                                      arg |-> <<>> ]

\* A parent-directory specifier was evaluated while a blocklist rule matches
\* every name.
C25_Witness ==
    /\ decision # <<>>
    /\ evalModuleId[1] = <<".", ".", "/", "a", "b">>
    /\ SomeRuleMatches(extractPackageName(evalModuleId[1]), policy.packages.block)
    /\ ~policy.relativeImports.analyze
    /\ decision[1].action = "allow"

\* C26: a rule name ending in '*' matches exactly the names that begin with
\* the rule name less its last character, character case included; any other
\* rule name matches the identical name only, so that a '*' elsewhere is an
\* ordinary character.
C26_WildcardIsFinalStar ==
    \A k \in 1..Len(match) :
        LET c == match[k].packageName
            r == match[k].pattern
            n == Len(r)
        IN  IF n > 0 /\ r[n] = "*"
            THEN match[k].value <=>
                    (Len(c) >= n - 1 /\ \A i \in 1..(n - 1) : c[i] = r[i])
            ELSE match[k].value <=> (c = r)

\* A pattern with a '*' at its end and one before it matched a name that has
\* the first '*' as a character.
C26_Witness ==
    /\ match # <<>>
    /\ match[1].pattern = <<"*", "*">>
    /\ match[1].packageName = <<"*", "a">>
    /\ match[1].value

\* The root package name of a specifier: for one starting with '@' its first
\* two '/'-separated segments, otherwise everything before the first '/'.
RootName(m) ==
    LET slashes == { i \in 1..Len(m) : m[i] = "/" }
        nth(k) == CHOOSE i \in slashes : Cardinality({ j \in slashes : j < i }) = k - 1
        scoped == Len(m) > 0 /\ m[1] = "@"
        cut == IF scoped
               THEN (IF Cardinality(slashes) >= 2 THEN nth(2) ELSE Len(m) + 1)
               ELSE (IF slashes # {} THEN nth(1) ELSE Len(m) + 1)
    IN  SubSeq(m, 1, cut - 1)

\* C27: for a specifier that is neither built-in nor relative the package
\* rules are applied to its root package name: a matching blocklist rule
\* blocks it, else a matching allowlist rule allows it, a decision's
\* matchedRule matches the root, and with no rule matching the root the
\* decision is analyze.
C27_RulesApplyToRoot ==
    decision # <<>> =>
        LET m == evalModuleId[1]
            d == decision[1]
            root == RootName(m)
            pk == policy.packages
        IN  (~isBuiltin(m) /\ ~isRelativeImport(m)) =>
              /\ extractPackageName(m) = root
              /\ d.matchedRule # <<>> => matchesPattern(root, d.matchedRule[1].name)
              /\ SomeRuleMatches(root, pk.block) => d.action = "block"
              /\ (~SomeRuleMatches(root, pk.block) /\ SomeRuleMatches(root, pk.allow))
                    => d.action = "allow"
              /\ ( /\ ~SomeRuleMatches(root, pk.block)
                   /\ ~SomeRuleMatches(root, pk.allow)
                   /\ ~SomeRuleMatches(root, pk.warn) ) => d.action = "analyze"

\* A subpath specifier of a scoped package was blocked by a rule for its
\* scope.
C27_Witness ==
    /\ decision # <<>>
    /\ evalModuleId[1] = <<"@", "s", "/", "p", "/", "x">>
    /\ decision[1].action = "block"
    /\ decision[1].matchedRule # <<>>
    /\ decision[1].matchedRule[1].name = <<"@", "s", "/", "*">>

\* C28: with built-ins disabled and the one blocklist rule 'node:*' with
\* reason R, the decision for 'node:fs' and for 'node:os' is block, made by
\* that rule: it carries the rule as matchedRule and R as reason.
C28_NodeWildcardDecides ==
    decision # <<>> =>
        LET m == evalModuleId[1]
            d == decision[1]
            rule == Rule(NodePrefix \o <<"*">>, <<"R3">>)
        IN  ( /\ m \in { NodePrefix \o <<"f", "s">>, NodePrefix \o <<"o", "s">> }
              /\ ~policy.builtins.allow
              /\ RestrictedNames = {}
              /\ policy.packages.block = <<rule>>
              /\ policy.packages.allow = <<>> ) =>
              /\ d.action = "block"
              /\ d.matchedRule = <<rule>>
              /\ d.reason = [ text |-> "R3", arg |-> <<>> ]

-----------------------------------------------------------------------------
(* Claims about the index over the rule engine (SpecGuard).                *)

\* The allowlist-only set-up: built-ins disabled, nothing blocklisted, an
\* allowlist, enforce mode.
AllowlistOnly(p) ==
    /\ ~p.builtins.allow
    /\ p.packages.block = <<>>
    /\ p.packages.allow # <<>>
    /\ p.mode = "enforce"

\* C29: while the index is initialised with an allowlist-only policy (the
\* engine's and the one the callback reads), a hooked require of a built-in or
\* of a package that no allowlist rule matches, which resolves so that the
\* callback is asked about it, never reaches the original require, and ends
\* with an error.
C29_AllowlistOnlyBlocksTheRest ==
    \A f \in Frames :
        ( /\ Hooked(f)
          /\ f.ran = <<IndexAnalyzer>> /\ f.pc # "analyzer"
          /\ guard.isInitialized
          /\ guard.engine # <<>> /\ guard.policy = guard.engine
          /\ AllowlistOnly(guard.engine[1])
          /\ ~isRelativeImport(f.id)
          /\ ~SomeRuleMatches(RuleSubject(f.id), guard.engine[1].packages.allow) ) =>
            /\ f.origArg = <<>>
            /\ f.pc = "done" => f.result \in ErrorKinds

-----------------------------------------------------------------------------
(* Claims about the index over the singleton and the shields (SpecApp).    *)

\* Everything reqguard installs is uninstalled: each flag is down and each
\* entry point holds the handler the host had before init.
AllUninstalled ==
    /\ ~isHooked /\ moduleRequire = "original"
    /\ ~isLocked /\ globalEval = "original" /\ globalFunction = "original"
    /\ ~netIsActivated /\ \A e \in NetEntryPoints : netSlot[e] = PristineNet(e)
    /\ ~fsIsActivated /\ \A e \in FsEntryPoints : fsSlot[e] = PristineFs(e)

\* The engine PolicyEngine.getInstance() returns has the default
\* configuration and empty sets.
SingletonIsDefault ==
    /\ getInstance.config = DEFAULT_CONFIG
    /\ getInstance.allowSet = {}
    /\ getInstance.blockSet = {}

\* C30: when shutdown() has returned, after whatever init and configure calls
\* came before it, isActive() is false, the four hooks are uninstalled with
\* their entry points as the host had them, and the singleton is the default
\* one.
C30_ShutdownTearsDown ==
    lastCall.op = "shutdown" =>
        /\ ~isActive
        /\ AllUninstalled
        /\ SingletonIsDefault

\* C31: whatever inits came before, a hooked require the callback is asked
\* about is judged by the engine of the latest init, and the callback throws
\* exactly when that decision is block and the latest policy's mode is
\* enforce.
C31_LatestPolicyGoverns ==
    \A f \in Frames :
        ( /\ Hooked(f)
          /\ f.ran = <<IndexAnalyzer>> /\ f.pc # "analyzer"
          /\ guard.isInitialized /\ guard.engine # <<>> ) =>
            LET latest == guard.engine[1]
                d == evaluate(latest, f.arg[1])
            IN  /\ decision = <<d>>
                /\ f.threw = <<"ReqguardError">>
                     <=> (d.action = "block" /\ latest.mode = "enforce")

-----------------------------------------------------------------------------
(* Claims about the singleton engine (SpecSingleton).                      *)

\* The engine has the default configuration and nothing in its two sets.
IsDefaultEngine(engine) ==
    engine.config = DEFAULT_CONFIG /\ engine.allowSet = {} /\ engine.blockSet = {}

\* The forms of the dangerous built-ins, and of the other built-ins.
DangerousForms == UNION { Forms(n) : n \in DANGEROUS_BUILTINS }
OtherBuiltinForms == UNION { Forms(n) : n \in builtinModules \ DANGEROUS_BUILTINS }

\* C32: the default engine throws a SecurityError for child_process, vm and
\* worker_threads, bare, with node:, and with a subpath, and returns true,
\* without reaching handleBlock, for every other built-in.
C32_DefaultBlocksDangerous ==
    checked # <<>> =>
        LET c == checked[1]
        IN  IsDefaultEngine(c.engine) =>
              /\ c.request \in DangerousForms => c.did.ret = "SecurityError"
              /\ c.request \in OtherBuiltinForms => c.did = CheckResult("true", FALSE, <<>>)

\* The default engine, created by the check itself, was asked about a subpath
\* of node:child_process and threw.
C32_Witness ==
    /\ checked # <<>>
    /\ IsDefaultEngine(checked[1].engine)
    /\ lastCall = Call("check", <<NodePrefix \o ChildProcess \o <<"/", "x">>>>, FALSE)
    /\ checked[1].did.ret = "SecurityError"

\* C33: a request that is in the allow set, itself or by its root package
\* name, is answered true with nothing logged and handleBlock not reached,
\* whatever the block set, the dangerous set and the mode.
C33_AllowlistFirst ==
    checked # <<>> =>
        LET c == checked[1]
        IN  ( \/ c.request \in c.engine.allowSet
              \/ SingletonExtractPackageName(c.request) \in c.engine.allowSet ) =>
              c.did = CheckResult("true", FALSE, <<>>)

\* A subpath of vm was allowed in enforce mode by the allowlist entry vm while
\* vm was on the blocklist too and dangerous built-ins were not allowed.
C33_Witness ==
    /\ checked # <<>>
    /\ checked[1].request = NodePrefix \o <<"v", "m", "/", "x">>
    /\ <<"v", "m">> \in checked[1].engine.allowSet
    /\ <<"v", "m">> \in checked[1].engine.blockSet
    /\ ~checked[1].engine.config.allowDangerousBuiltins
    /\ checked[1].engine.config.mode = "enforce"
    /\ checked[1].did.ret = "true"

\* C34: PolicyEngine.configure(c) on an existing singleton leaves the merged
\* configuration (a field c does not give keeps its value), and the allow and
\* block sets are exactly the lists of that configuration; every request that
\* was blocked and is not a dangerous built-in still refused is answered true
\* after configure({blocklist: []}).
C34_ConfigureRebuildsSets ==
    [][ (lastCall'.op = "configure" /\ instance # <<>>) =>
          LET c == lastCall'.arg[1]
              before == instance[1]
              after == instance'[1]
          IN  /\ after.config = [ f \in DOMAIN DEFAULT_CONFIG |->
                                    IF c[f] = <<>> THEN before.config[f] ELSE c[f][1] ]
              /\ after.allowSet = SetOf(after.config.allowlist)
              /\ after.blockSet = SetOf(after.config.blocklist)
              /\ c.blocklist = << <<>> >> =>
                   \A r \in CheckRequests :
                      ( /\ check(before, r).blocked
                        /\ ~(IsDangerous(r) /\ ~after.config.allowDangerousBuiltins) ) =>
                        check(after, r) = CheckResult("true", FALSE, <<>>) ]_vars

\* configure({blocklist: []}) was called on an existing singleton: the
\* allowlist it does not name is kept, and the two sets hold what the merged
\* lists say.
C34_Witness ==
    /\ lastCall.op = "configure" /\ lastCall.installed
    /\ lastCall.arg[1].blocklist = << <<>> >>
    /\ lastCall.arg[1].allowlist = <<>>
    /\ instance[1].config.allowlist = << <<"v", "m">> >>
    /\ instance[1].allowSet = { <<"v", "m">> }
    /\ instance[1].blockSet = {}

-----------------------------------------------------------------------------
(* Claims about the delivery of a block by the asynchronous fs entry       *)
(* points (SpecShieldTurns).                                               *)

\* The last call was a guarded fs.readFile or fs.open with a completion
\* callback and a path that is to be blocked.
BlockedCallbackCall ==
    /\ Guarded({ "readFile", "open" })
    /\ io[1].args.cb
    /\ PathLike(io[1].args.path) /\ ShouldBlockPath(io[1].args.path)

\* The call has returned and its callback waits at the end of the queue, not
\* called.
Deferred == io[1].outcome = "queued" /\ ticks # <<>> /\ ticks[Len(ticks)] = io[1]

\* The callback has been called with the security error, in a later turn.
Delivered == io[1].outcome = "callback later" /\ io[1].error = <<"SecurityError">>

\* What the promise-based variants do with a path that is to be blocked, and
\* with any argument.
PromiseCallsReject ==
    Guarded({ "promises.readFile", "promises.open", "promises.opendir" }) =>
        /\ io[1].outcome # "throw"
        /\ (PathLike(io[1].args.path) /\ ShouldBlockPath(io[1].args.path)) =>
              /\ io[1].outcome = "reject"
              /\ io[1].error = <<"SecurityError">>
              /\ io[1].orig = <<>>

-----------------------------------------------------------------------------
(* Claims about handlers kept across an uninstall (SpecSaved)              *)

\* A require that the policy lets through.
LetThrough(f) == f.chk = <<>> \/ f.chk[1].ret = "true"

\* C36: a call made through a handler that was kept from before the uninstall
\* behaves as the original does: a require the policy allows reaches the
\* original require with its argument and does not fail with a TypeError,
\* and a filesystem call on a path that is not blocked is forwarded to the
\* original function.
C36_SavedHandlersForward ==
    /\ \A f \in Frames :
          (f.via = "patchedRequire" /\ ~isHooked /\ LetThrough(f))
              => (f.origArg = <<f.id>> /\ f.result # <<"TypeError">>)
    /\ (/\ io # <<>>
        /\ io[1].entry \in FsEntryPoints
        /\ io[1].via = "patched"
        /\ ~fsIsActivated
        /\ PathLike(io[1].args.path)
        /\ ~ShouldBlockPath(io[1].args.path))
           => Forwarded(io[1])

-----------------------------------------------------------------------------
(* Claims about the recursion guard of the require hook (SpecRequire)      *)

\* The check or the analyzer of some hooked call is running.
CheckInProgress == \E f \in Frames : Hooked(f) /\ f.pc = "analyzer"

\* The call was checked by the policy engine and let through, and the
\* original require is now loading its module.
LoadingAllowed(f) ==
    Hooked(f) /\ f.pc = "loading" /\ f.chk # <<>> /\ f.chk[1].ret = "true"

\* C37: the recursion guard is set only while the check and the analyzer of
\* a hooked call run: it is false whenever no check is in progress, whether
\* the call went on to the original require, returned or threw; and a
\* non-relative require made by a module that an allowed call is loading is
\* itself checked by the policy engine.
C37_GuardOnlyWhileChecking ==
    /\ isChecking => CheckInProgress
    /\ \A i \in 2..Len(stack) :
          (/\ LoadingAllowed(stack[i - 1])
           /\ Hooked(stack[i])
           /\ ~StartsWith(stack[i].id, DotSlash)
           /\ ~StartsWith(stack[i].id, DotDotSlash))
              => (~stack[i].guarded /\ stack[i].chk # <<>>)

\* A module loaded by an allowed call, whose analyzer has run and thrown an
\* error that was swallowed, requires a module, and that require is checked.
C37_Witness ==
    /\ Len(stack) = 2
    /\ LoadingAllowed(stack[1])
    /\ stack[1].ran # <<>>
    /\ stack[1].threw = <<"Error">>
    /\ Hooked(stack[2])
    /\ stack[2].chk # <<>>
    /\ stack[2].pc \in { "loading", "done" }
    /\ ~isChecking

-----------------------------------------------------------------------------
(* Claims about reconfiguring an initialised system (SpecApp)              *)

\* The step is a configure, or an init, made while already initialised.
ReconfiguresInitialised ==
    /\ app.isInitialized
    /\ lastCall'.op \in { "configure", "init" }
    /\ lastCall'.installed

\* C38: configure(config) on an initialised system, and init(config) while
\* already initialised, leave the require hook, the primordial lockdown, the
\* network shield and the filesystem shield as they are, whatever config says
\* about lockdownPrimordials, networkShield or fsShield.
C38_ReconfigureLeavesHooks ==
    [][ReconfiguresInitialised =>
          UNCHANGED << moduleRequire, originalRequire, isHooked, analyzerCallback,
                       primordialVars, netVars, fsVars >>]_vars

\* init({ fsShield: false, ... }) was called on a system initialised with the
\* filesystem shield: the stored configuration says false and the shield is
\* still installed.
C38_Witness ==
    /\ lastCall.op = "init" /\ lastCall.installed
    /\ lastCall.arg # <<>> /\ lastCall.arg[1].fsShield = <<FALSE>>
    /\ app.isInitialized
    /\ ~app.currentConfig[1].fsShield
    /\ fsIsActivated
    /\ isHooked

-----------------------------------------------------------------------------
(* Claims about the analyzer the hook holds (SpecHooks)                    *)

\* C39: whenever the require hook is not installed no analyzer callback is
\* retained, so that a hookRequire() without an argument that installs the
\* hook leaves it without an analyzer.
C39_NoAnalyzerWhileUnhooked ==
    /\ ~isHooked => analyzerCallback = <<>>
    /\ lastCall = Call("hookRequire", <<>>, FALSE) => analyzerCallback = <<>>

-----------------------------------------------------------------------------
(* Claims about the ESM loader against the require hook (SpecLoader)       *)

\* What the hooked require does with id in the present state: it throws a
\* block error before the original require is reached.
RequireBlocks(id) ==
    LET f == EnteredVia("patchedRequire", id, TRUE).frame
    IN  f.pc = "done" /\ f.result \in { <<"SecurityError">>, <<"ReqguardError">> }

\* The resolve hook had the policy engine, or did not need it.
EngineAvailable == resolved[1].initialized \/ resolved[1].specifier \in DANGEROUS_MODULES

\* C40: with the policy engine available to the loader, the resolve hook and
\* the hooked require (installed without an analyzer) do the same with every
\* non-relative specifier under every configuration of the singleton: both
\* raise a block error or both go on to the underlying resolution or load.
C40_LoaderAgreesWithRequire ==
    (/\ resolved # <<>>
     /\ EngineAvailable
     /\ ~StartsWith(resolved[1].specifier, DotSlash)
     /\ ~StartsWith(resolved[1].specifier, DotDotSlash)
     /\ isHooked /\ analyzerCallback = <<>> /\ ~isChecking)
        => (resolved[1].outcome = "throw" <=> RequireBlocks(resolved[1].specifier))
====
